---------------------------- MODULE Spec2Model ----------------------------
(***************************************************************************)
(* Model of the skill-builder matching engine                              *)
(* (src/src/services/skill-matcher.ts): tokenizer, match scorer and        *)
(* conflict detector.  Text is modelled as TLA+ strings processed          *)
(* character by character; scores are exact rationals <<n, d>>.           *)
(***************************************************************************)
EXTENDS Integers, Sequences, FiniteSets, TLC

VARIABLES
    pc,               \* "call" before the entry point runs, "done" after it
    skills,           \* SkillMetadata[] handed to the engine
    taskDescription,  \* matchSkills: argument
    minConfidenceIn,  \* matchSkills: argument as passed by the caller
    minConfidence,    \* matchSkills: the parameter variable (reassigned at line 20)
    matches,          \* matchSkills: returned SkillMatch[]
    newSkill,         \* detectSkillConflicts: argument
    overlapThreshold, \* detectSkillConflicts: argument
    conflicts,        \* detectSkillConflicts: returned SkillConflict[]
    descriptionIn,    \* analyzeDescription: argument
    intendedTriggers, \* analyzeDescription: argument
    analysis,         \* analyzeDescription: returned DescriptionAnalysis
    textIn,           \* countTokens: argument
    tokens,           \* countTokens: returned number
    layer1Tokens,     \* checkProgressiveDisclosure: argument
    layer2Tokens,     \* checkProgressiveDisclosure: argument
    disclosure,       \* checkProgressiveDisclosure: returned object
    db,               \* the DatabaseManager singleton: its tables
    result,           \* the outcome of the latest tool call on the database
    updatesDone,      \* history: the successful updates of each stored skill
    whitelist,        \* tumbler.js: the names of the signals let through
    handlers,         \* handlers.js: signal type -> registered handler
    keyField,         \* the field of a signal the built handlers.js reads
    delivery,         \* what became of the latest incoming signal
    started,          \* interlock/index.js: the started flag
    sharedSocket,     \* socket.ts: the module's socket (0 for null)
    sockets,          \* every SharedInterlockSocket constructed so far
    calls,            \* the startInterlock / closeInterlock calls made so far
    disk              \* the SKILL.md files found under the skills directories

matchVars == <<skills, taskDescription, minConfidenceIn, minConfidence, matches>>

conflictVars == <<newSkill, overlapThreshold, conflicts>>

analyzeVars == <<descriptionIn, intendedTriggers, analysis>>

tokenVars == <<textIn, tokens, layer1Tokens, layer2Tokens, disclosure>>

dbVars == <<db, result, updatesDone>>

signalVars == <<whitelist, handlers, keyField, delivery>>

lockVars == <<started, sharedSocket, sockets, calls>>

hostVars == <<signalVars, lockVars, disk>>

vars == <<pc, matchVars, conflictVars, analyzeVars, tokenVars, dbVars,
          hostVars>>

-----------------------------------------------------------------------------
(* Bounds of the model *)

MaxSkills == 2

MaxTaskWords == 2

-----------------------------------------------------------------------------
(* Exact rational arithmetic: a number is <<n, d>> with d > 0, in lowest    *)
(* terms.  It stands for the code's IEEE doubles; <<0, 0>> is NaN, the     *)
(* value of 0 / 0.                                                         *)

Abs(x) == IF x < 0 THEN -x ELSE x

RECURSIVE GCD(_, _)
GCD(a, b) == IF b = 0 THEN a ELSE GCD(b, a % b)

NaN == <<0, 0>>

IsNaN(x) == x[2] = 0

Rat(n, d) ==
    LET g == GCD(Abs(n), d)
    IN  IF d = 0 THEN NaN
        ELSE IF n = 0 THEN <<0, 1>>
        ELSE <<n \div g, d \div g>>

\* a NaN operand makes the denominator 0, hence the result NaN
RAdd(a, b) == Rat(a[1] * b[2] + b[1] * a[2], a[2] * b[2])
RMul(a, b) == Rat(a[1] * b[1], a[2] * b[2])
\* a comparison with NaN is false
RLe(a, b) == ~IsNaN(a) /\ ~IsNaN(b) /\ a[1] * b[2] <= b[1] * a[2]
RLt(a, b) == ~IsNaN(a) /\ ~IsNaN(b) /\ a[1] * b[2] < b[1] * a[2]
\* Math.min and Math.max return NaN when an argument is NaN
RMin(a, b) == IF IsNaN(a) \/ IsNaN(b) THEN NaN ELSE IF RLe(a, b) THEN a ELSE b
RMax(a, b) == IF IsNaN(a) \/ IsNaN(b) THEN NaN ELSE IF RLe(a, b) THEN b ELSE a

Zero == <<0, 1>>
One == <<1, 1>>

\* Math.round(x * 100) / 100 for x >= 0: round half up to two decimals
Round2(x) == Rat((200 * x[1] + x[2]) \div (2 * x[2]), 100)

-----------------------------------------------------------------------------
(* JavaScript string primitives *)

LowerLetters == "abcdefghijklmnopqrstuvwxyz"
UpperLetters == "ABCDEFGHIJKLMNOPQRSTUVWXYZ"
Digits == "0123456789"

CharsOf(s) == {SubSeq(s, i, i) : i \in 1..Len(s)}

UpperSet == CharsOf(UpperLetters)

\* \w of a JavaScript regular expression: [A-Za-z0-9_]
WordCharSet == CharsOf(LowerLetters) \cup CharsOf(UpperLetters)
                   \cup CharsOf(Digits) \cup {"_"}

IsUpper(c) == c \in UpperSet

IsWordChar(c) == c \in WordCharSet

\* \s of a JavaScript regular expression (the members that occur in the inputs)
IsSpace(c) == c \in {" ", "\t", "\n"}

LowerMap ==
    [c \in UpperSet |->
        LET i == CHOOSE k \in 1..Len(UpperLetters) : SubSeq(UpperLetters, k, k) = c
        IN  SubSeq(LowerLetters, i, i)]

LowerChar(c) == IF IsUpper(c) THEN LowerMap[c] ELSE c

\* the conversion is character by character: a text longer than one
\* character is converted half by half
RECURSIVE toLowerCase(_)
toLowerCase(s) ==
    IF s = "" THEN ""
    ELSE IF Len(s) = 1 THEN LowerChar(s)
    ELSE LET h == Len(s) \div 2
         IN  toLowerCase(SubSeq(s, 1, h)) \o toLowerCase(SubSeq(s, h + 1, Len(s)))

\* String.prototype.includes
includes(s, sub) ==
    \E i \in 0..(Len(s) - Len(sub)) : SubSeq(s, i + 1, i + Len(sub)) = sub

\* s.replace(/<from>/g, to) for a single character <from>
RECURSIVE ReplaceChar(_, _, _)
ReplaceChar(s, from, to) ==
    IF s = "" THEN ""
    ELSE IF Len(s) = 1 THEN (IF s = from THEN to ELSE s)
    ELSE LET h == Len(s) \div 2
         IN  ReplaceChar(SubSeq(s, 1, h), from, to)
                 \o ReplaceChar(SubSeq(s, h + 1, Len(s)), from, to)

\* s.replace(/[^\w\s-]/g, ' ')
RECURSIVE ReplaceNonWord(_)
ReplaceNonWord(s) ==
    IF s = "" THEN ""
    ELSE IF Len(s) = 1
    THEN (IF IsWordChar(s) \/ IsSpace(s) \/ s = "-" THEN s ELSE " ")
    ELSE LET h == Len(s) \div 2
         IN  ReplaceNonWord(SubSeq(s, 1, h))
                 \o ReplaceNonWord(SubSeq(s, h + 1, Len(s)))

\* the pieces of s between its whitespace characters, each whitespace
\* character a separator: the pieces of a text are those of its two halves,
\* the last piece of the first half continued by the first of the second
RECURSIVE SplitEach(_)
SplitEach(s) ==
    IF s = "" THEN <<"">>
    ELSE IF Len(s) = 1 THEN (IF IsSpace(s) THEN <<"", "">> ELSE <<s>>)
    ELSE LET h == Len(s) \div 2
             left == SplitEach(SubSeq(s, 1, h))
             right == SplitEach(SubSeq(s, h + 1, Len(s)))
         IN  SubSeq(left, 1, Len(left) - 1)
                 \o <<left[Len(left)] \o right[1]>>
                 \o SubSeq(right, 2, Len(right))

\* s.split(/\s+/): the pieces between maximal whitespace runs, empty pieces
\* at the ends included ("" splits to <<"">>); a run of k whitespace
\* characters inside s leaves k - 1 empty pieces in SplitEach, dropped here
SplitWhitespace(s) ==
    LET pieces == SplitEach(s)
        n == Len(pieces)
    IN  IF n <= 2 THEN pieces
        ELSE <<pieces[1]>>
                 \o SelectSeq(SubSeq(pieces, 2, n - 1), LAMBDA w : Len(w) > 0)
                 \o <<pieces[n]>>

\* Array.prototype.join
RECURSIVE join(_, _)
join(arr, sep) ==
    IF arr = <<>> THEN ""
    ELSE IF Len(arr) = 1 THEN arr[1]
    ELSE arr[1] \o sep \o join(Tail(arr), sep)

\* The set of elements of an array (new Set(arr))
SetOf(arr) == {arr[i] : i \in 1..Len(arr)}

\* arr.includes(x)
arrIncludes(arr, x) == x \in SetOf(arr)

\* [...new Set(arr)]: first occurrences, in order
RECURSIVE DedupeFrom(_, _)
DedupeFrom(arr, seen) ==
    IF arr = <<>> THEN <<>>
    ELSE IF Head(arr) \in seen THEN DedupeFrom(Tail(arr), seen)
    ELSE <<Head(arr)>> \o DedupeFrom(Tail(arr), seen \cup {Head(arr)})

Dedupe(arr) == DedupeFrom(arr, {})

\* arr.map(t => t.toLowerCase())
mapLower(arr) == [i \in 1..Len(arr) |-> toLowerCase(arr[i])]

\* arr.sort((a, b) => key(b) - key(a)) as the order of the indices: descending
\* by key, equal keys in their original order (Array.prototype.sort is stable)
RECURSIVE InsertDesc(_, _, _)
InsertDesc(order, keys, i) ==
    IF order = <<>> THEN <<i>>
    ELSE IF RLt(keys[Head(order)], keys[i]) THEN <<i>> \o order
    ELSE <<Head(order)>> \o InsertDesc(Tail(order), keys, i)

RECURSIVE SortOrderFrom(_, _, _)
SortOrderFrom(order, keys, i) ==
    IF i > Len(keys) THEN order
    ELSE SortOrderFrom(InsertDesc(order, keys, i), keys, i + 1)

SortOrderDesc(keys) == SortOrderFrom(<<>>, keys, 1)

-----------------------------------------------------------------------------
(* Tokenizer / keyword extractor *)

STOP_WORDS ==
    {"the", "a", "an", "and", "or", "but", "in", "on", "at", "to", "for",
     "of", "with", "by", "from", "as", "is", "was", "are", "were", "been",
     "be", "have", "has", "had", "do", "does", "did", "will", "would",
     "could", "should", "may", "might", "must", "shall", "can", "this",
     "that", "these", "those", "it", "its", "i", "me", "my", "we", "our",
     "you", "your", "he", "him", "his", "she", "her", "they", "them", "their",
     "what", "which", "who", "when", "where", "why", "how", "all", "each",
     "every", "both", "few", "more", "most", "other", "some", "such", "no",
     "not", "only", "same", "so", "than", "too", "very", "just", "also",
     "need", "want", "like", "get", "make", "using", "use"}

normalizeForMatch(text) ==
    ReplaceChar(ReplaceChar(toLowerCase(text), "-", " "), "_", " ")

tokenize(text) ==
    SelectSeq(
        SplitWhitespace(ReplaceChar(ReplaceNonWord(toLowerCase(text)), "-", " ")),
        LAMBDA w : Len(w) > 2 /\ w \notin STOP_WORDS)

extractKeywords(text) == SelectSeq(tokenize(text), LAMBDA t : Len(t) > 3)

-----------------------------------------------------------------------------
(* Overlap and fraction helpers *)

\* overlap counts the elements of tokens1 (repeats included) found in tokens2;
\* union is the size of the set of all tokens
calculateOverlapSumUnion(tokens1, tokens2) ==
    IF Len(tokens1) = 0 \/ Len(tokens2) = 0 THEN Zero
    ELSE LET set2 == SetOf(tokens2)
             overlap == Len(SelectSeq(tokens1, LAMBDA t : t \in set2))
         IN  Rat(overlap, Len(tokens1) + Len(tokens2))

calculateOverlap(tokens1, tokens2) ==
    IF Len(tokens1) = 0 \/ Len(tokens2) = 0 THEN Zero
    ELSE LET set2 == SetOf(tokens2)
             overlap == Len(SelectSeq(tokens1, LAMBDA t : t \in set2))
             union == Cardinality(SetOf(tokens1) \cup SetOf(tokens2))
         IN  Rat(overlap, union)

calculateKeywordMatch(keywords, description, tags) ==
    IF Len(keywords) = 0 THEN Zero
    ELSE LET descLower == toLowerCase(description)
             tagsLower == toLowerCase(join(tags, " "))
             nmatches == Len(SelectSeq(keywords,
                            LAMBDA k : includes(descLower, k) \/ includes(tagsLower, k)))
         IN  Rat(nmatches, Len(keywords))

\* matches / tags.length without the check for an empty tag list
calculateTagMatchUnguarded(taskTokens, tags) ==
    Rat(Len(SelectSeq(tags, LAMBDA tag : arrIncludes(taskTokens, tag))), Len(tags))

calculateTagMatch(taskTokens, tags) ==
    IF Len(tags) = 0 THEN Zero
    ELSE Rat(Len(SelectSeq(tags, LAMBDA tag : arrIncludes(taskTokens, tag))), Len(tags))

-----------------------------------------------------------------------------
(* SkillMetadata: a record with id, name, description and the optional      *)
(* fields tags and deprecated_at (absent from the record when undefined)   *)

\* skill.tags || []
TagsOf(skill) == IF "tags" \in DOMAIN skill THEN skill.tags ELSE <<>>

\* truthiness of skill.deprecated_at: defined and not 0
IsDeprecatedIgnored(skill) == FALSE

IsDeprecated(skill) == "deprecated_at" \in DOMAIN skill /\ skill.deprecated_at # 0

-----------------------------------------------------------------------------
(* Match scorer *)

\* Line 75: the task contains the skill name, normalized or raw lowercase
nameIncludedSwapped(taskDescription_, skill) ==
    \/ includes(normalizeForMatch(skill.name), normalizeForMatch(taskDescription_))
    \/ includes(toLowerCase(skill.name), toLowerCase(taskDescription_))

nameIncluded(taskDescription_, skill) ==
    \/ includes(normalizeForMatch(taskDescription_), normalizeForMatch(skill.name))
    \/ includes(toLowerCase(taskDescription_), toLowerCase(skill.name))

\* the name component with an all-tokens match weighted like a substring
\* match
nameScoreFlat(taskDescription_, taskTokens, skill) ==
    IF \/ nameIncluded(taskDescription_, skill)
       \/ \A t \in SetOf(tokenize(normalizeForMatch(skill.name))) :
              t \in SetOf(taskTokens)
    THEN Rat(5, 10)
    ELSE Zero

\* Lines 74-89: the name component of the score
nameScore(taskDescription_, taskTokens, skill) ==
    IF nameIncluded(taskDescription_, skill)
    THEN Rat(5, 10)
    ELSE LET skillNameTokens == tokenize(normalizeForMatch(skill.name))
             taskTokenSet == SetOf(taskTokens)
             nameTokensMatched ==
                 Len(SelectSeq(skillNameTokens, LAMBDA t : t \in taskTokenSet))
         IN  IF Len(skillNameTokens) > 0
                /\ nameTokensMatched = Len(skillNameTokens)
             THEN Rat(4, 10)
             ELSE IF Len(skillNameTokens) > 0
                     /\ 2 * nameTokensMatched >= Len(skillNameTokens)
             THEN RMul(Rat(2, 10), Rat(nameTokensMatched, Len(skillNameTokens)))
             ELSE Zero

\* Lines 72-102: the sum of the four components
scoreSum(taskDescription_, taskTokens, taskKeywords, skill) ==
    LET skillDesc == toLowerCase(skill.description)
        skillTags == mapLower(TagsOf(skill))
        skillDescTokens == tokenize(skillDesc)
        descOverlap == calculateOverlap(taskTokens, skillDescTokens)
        keywordScore == calculateKeywordMatch(taskKeywords, skillDesc, skillTags)
        tagScore == calculateTagMatch(taskTokens, skillTags)
    IN  RAdd(RAdd(RAdd(nameScore(taskDescription_, taskTokens, skill),
                       RMul(descOverlap, Rat(25, 100))),
                  RMul(keywordScore, Rat(15, 100))),
             RMul(tagScore, Rat(10, 100)))

\* Line 105: Math.min(1, score)
clampScoreMissing(score) == score

clampScore(score) == RMin(One, score)

calculateMatchConfidence(taskDescription_, taskTokens, taskKeywords, skill) ==
    clampScore(scoreSum(taskDescription_, taskTokens, taskKeywords, skill))

findTriggers(taskTokens, taskKeywords, skill) ==
    LET skillName == toLowerCase(skill.name)
        skillDesc == toLowerCase(skill.description)
        skillTags == mapLower(TagsOf(skill))
        nameTrigger ==
            IF \E i \in 1..Len(taskTokens) : includes(skillName, taskTokens[i])
            THEN <<"name: " \o skill.name>> ELSE <<>>
        keywordHits ==
            SelectSeq(taskKeywords, LAMBDA k : includes(skillDesc, toLowerCase(k)))
        keywordTriggers ==
            [i \in 1..Len(keywordHits) |-> "keyword: " \o keywordHits[i]]
        tagHits == SelectSeq(skillTags, LAMBDA tag : arrIncludes(taskTokens, tag))
        tagTriggers == [i \in 1..Len(tagHits) |-> "tag: " \o tagHits[i]]
    IN  Dedupe(nameTrigger \o keywordTriggers \o tagTriggers)

\* Line 20: Math.max(0, Math.min(1, minConfidence))
clampMinConfidenceMissing(m) == m

clampMinConfidence(m) == RMax(Zero, RMin(One, m))

\* the loop keeping a skill only when confidence > minConfidence
RECURSIVE matchLoopStrict(_, _, _, _, _, _)
matchLoopStrict(taskDescription_, taskTokens, taskKeywords, skills_, minConf, i) ==
    IF i > Len(skills_) THEN <<>>
    ELSE LET rest == matchLoopStrict(taskDescription_, taskTokens, taskKeywords,
                                     skills_, minConf, i + 1)
             kept(skill, confidence) ==
                 IF RLt(minConf, confidence)
                 THEN <<[skill_id |-> skill.id,
                         name |-> skill.name,
                         description |-> skill.description,
                         confidence |-> confidence,
                         triggered_by |->
                             findTriggers(taskTokens, taskKeywords, skill)]>>
                      \o rest
                 ELSE rest
         IN  IF IsDeprecated(skills_[i]) THEN rest
             ELSE kept(skills_[i],
                       calculateMatchConfidence(taskDescription_, taskTokens,
                                                taskKeywords, skills_[i]))

\* Lines 27-49: the loop over the skills, from index i on
RECURSIVE matchLoop(_, _, _, _, _, _)
matchLoop(taskDescription_, taskTokens, taskKeywords, skills_, minConf, i) ==
    IF i > Len(skills_) THEN <<>>
    ELSE LET skill == skills_[i]
             rest == matchLoop(taskDescription_, taskTokens, taskKeywords,
                               skills_, minConf, i + 1)
         IN  IF IsDeprecated(skill) THEN rest
             ELSE LET confidence ==
                          calculateMatchConfidence(taskDescription_, taskTokens,
                                                   taskKeywords, skill)
                  IN  IF RLe(minConf, confidence)
                      THEN <<[skill_id |-> skill.id,
                              name |-> skill.name,
                              description |-> skill.description,
                              confidence |-> confidence,
                              triggered_by |->
                                  findTriggers(taskTokens, taskKeywords, skill)]>>
                           \o rest
                      ELSE rest

\* Line 52: matches.sort((a, b) => b.confidence - a.confidence)
sortMatchesMissing(ms) == ms

sortMatches(ms) ==
    LET order == SortOrderDesc([i \in 1..Len(ms) |-> ms[i].confidence])
    IN  [k \in 1..Len(ms) |-> ms[order[k]]]

matchSkills(taskDescription_, skills_, minConfidence_) ==
    LET minConf == clampMinConfidence(minConfidence_)
        taskTokens == tokenize(toLowerCase(taskDescription_))
        taskKeywords == extractKeywords(taskDescription_)
    IN  sortMatches(matchLoop(taskDescription_, taskTokens, taskKeywords,
                              skills_, minConf, 1))

-----------------------------------------------------------------------------
(* Conflict detector *)

\* Math.round(x) for x >= 0
RoundInt(x) == (2 * x[1] + x[2]) \div (2 * x[2])

\* Lines 258-277 with the weights of a plain average
overlapScoreEqualWeights(newSkill_, existing) ==
    LET newTags == mapLower(TagsOf(newSkill_))
        existingTags == mapLower(TagsOf(existing))
        descOverlap == calculateOverlap(tokenize(toLowerCase(newSkill_.description)),
                                        tokenize(toLowerCase(existing.description)))
        keywordOverlap == calculateOverlap(extractKeywords(newSkill_.description),
                                           extractKeywords(existing.description))
        tagOverlap == IF Len(newTags) > 0 /\ Len(existingTags) > 0
                      THEN calculateOverlap(newTags, existingTags) ELSE Zero
        nameOverlap == calculateOverlap(tokenize(toLowerCase(newSkill_.name)),
                                        tokenize(toLowerCase(existing.name)))
    IN  RMul(Rat(25, 100),
             RAdd(RAdd(RAdd(descOverlap, keywordOverlap), tagOverlap), nameOverlap))

\* Lines 249-252 and 258-277: the weighted composite score of a new skill
\* against one existing skill
overlapScore(newSkill_, existing) ==
    LET newTokens == tokenize(toLowerCase(newSkill_.description))
        newKeywords == extractKeywords(newSkill_.description)
        newTags == mapLower(TagsOf(newSkill_))
        newNameTokens == tokenize(toLowerCase(newSkill_.name))
        existingTokens == tokenize(toLowerCase(existing.description))
        existingKeywords == extractKeywords(existing.description)
        existingTags == mapLower(TagsOf(existing))
        existingNameTokens == tokenize(toLowerCase(existing.name))
        descOverlap == calculateOverlap(newTokens, existingTokens)
        keywordOverlap == calculateOverlap(newKeywords, existingKeywords)
        tagOverlap == IF Len(newTags) > 0 /\ Len(existingTags) > 0
                      THEN calculateOverlap(newTags, existingTags)
                      ELSE Zero
        nameOverlap == calculateOverlap(newNameTokens, existingNameTokens)
    IN  RAdd(RAdd(RAdd(RMul(descOverlap, Rat(40, 100)),
                       RMul(keywordOverlap, Rat(30, 100))),
                  RMul(tagOverlap, Rat(15, 100))),
             RMul(nameOverlap, Rat(15, 100)))

\* Lines 285-292: the tiered recommendation message
recommendationFor(score, existing) ==
    LET pct == ToString(RoundInt(RMul(score, <<100, 1>>)))
    IN  IF RLe(Rat(95, 100), score)
        THEN "Very high overlap (" \o pct \o "%). Consider updating existing skill \""
                 \o existing.name \o "\" instead of creating a new one."
        ELSE IF RLe(Rat(90, 100), score)
        THEN "High overlap (" \o pct \o "%). Consider merging with \""
                 \o existing.name \o "\" or differentiating the use cases more clearly."
        ELSE "Significant overlap (" \o pct \o "%). Ensure the skills have clearly "
                 \o "distinct purposes to avoid matching ambiguity."

\* Lines 254-303: the loop over the existing skills, from index i on
RECURSIVE conflictLoop(_, _, _, _)
conflictLoop(newSkill_, existingSkills, threshold, i) ==
    IF i > Len(existingSkills) THEN <<>>
    ELSE LET existing == existingSkills[i]
             rest == conflictLoop(newSkill_, existingSkills, threshold, i + 1)
         IN  IF IsDeprecated(existing) THEN rest
             ELSE LET score == overlapScore(newSkill_, existing)
                      newKeywords == extractKeywords(newSkill_.description)
                      existingKeywords == extractKeywords(existing.description)
                      newTags == mapLower(TagsOf(newSkill_))
                      existingTags == mapLower(TagsOf(existing))
                  IN  IF RLe(threshold, score)
                      THEN <<[existing_skill_id |-> existing.id,
                              existing_skill_name |-> existing.name,
                              overlap_score |-> Round2(score),
                              shared_keywords |->
                                  SelectSeq(newKeywords,
                                      LAMBDA k : arrIncludes(existingKeywords, k)),
                              shared_tags |->
                                  SelectSeq(newTags,
                                      LAMBDA t : arrIncludes(existingTags, t)),
                              recommendation |->
                                  recommendationFor(score, existing)]>>
                           \o rest
                      ELSE rest

\* Line 306: conflicts.sort((a, b) => b.overlap_score - a.overlap_score)
sortConflicts(cs) ==
    LET order == SortOrderDesc([i \in 1..Len(cs) |-> cs[i].overlap_score])
    IN  [k \in 1..Len(cs) |-> cs[order[k]]]

detectSkillConflicts(newSkill_, existingSkills, overlapThreshold_) ==
    sortConflicts(conflictLoop(newSkill_, existingSkills, overlapThreshold_, 1))

-----------------------------------------------------------------------------
(* Inputs: the skill catalogue, task descriptions and thresholds the entry  *)
(* points are called with                                                  *)

SkillPool ==
    { [id |-> "s1", name |-> "git-deploy",
       description |-> "Deploy git, the workflow", tags |-> <<"Git", "deploy">>],
      [id |-> "s2", name |-> "deploy",
       description |-> "deploy", tags |-> <<"deploy">>],
      [id |-> "s3", name |-> "", description |-> ""],
      [id |-> "s4", name |-> "deploy_workflow",
       description |-> "workflow workflow git", tags |-> <<>>],
      [id |-> "s5", name |-> "workflow",
       description |-> "deploy workflow", tags |-> <<"deploy">>,
       deprecated_at |-> 1] }

\* Skill lists of at most MaxSkills skills with distinct ids
SkillLists ==
    {l \in UNION {[1..n -> SkillPool] : n \in 0..MaxSkills} :
        \A i, j \in 1..Len(l) : i # j => l[i].id # l[j].id}

\* Words a task description is made of ("the" is a stop word)
TaskWords == {"the Git", "deploy", "workflow"}

\* Task descriptions of at most MaxTaskWords of these, separated by spaces
Tasks ==
    {join(ws, " ") : ws \in UNION {[1..n -> TaskWords] : n \in 0..MaxTaskWords}}

\* minConfidence arguments, some outside [0, 1] (0.3 is the default)
MinConfidences == {<<-1, 2>>, Zero, <<3, 10>>, One, <<3, 2>>}

NoSkill == [name |-> "", description |-> ""]

-----------------------------------------------------------------------------
(* Values of the variables of an entry point that is not the one called *)

NoAnalysis == [clarity_score |-> <<0, 1>>, trigger_keywords |-> <<>>,
               suggestions |-> <<>>, too_broad |-> FALSE, too_narrow |-> FALSE]

NoDisclosure == [ok |-> TRUE, layer1Ok |-> TRUE, layer2Ok |-> TRUE,
                 warnings |-> <<>>]

MatchIdle ==
    /\ taskDescription = ""
    /\ minConfidenceIn = <<0, 1>>
    /\ minConfidence = <<0, 1>>
    /\ matches = <<>>

ConflictIdle ==
    /\ newSkill = NoSkill
    /\ overlapThreshold = <<0, 1>>
    /\ conflicts = <<>>

AnalyzeIdle ==
    /\ descriptionIn = ""
    /\ intendedTriggers = <<>>
    /\ analysis = NoAnalysis

TokenIdle ==
    /\ textIn = ""
    /\ tokens = 0
    /\ layer1Tokens = 0
    /\ layer2Tokens = 0
    /\ disclosure = NoDisclosure

NoResult == [op |-> "none"]

DbIdle ==
    /\ db = [skills |-> <<>>, versions |-> <<>>, usages |-> <<>>]
    /\ result = NoResult
    /\ updatesDone = <<>>

NoDelivery == [routed |-> FALSE]

SignalIdle ==
    /\ whitelist = {}
    /\ handlers = <<>>
    /\ keyField = "signalType"
    /\ delivery = NoDelivery

LockIdle ==
    /\ started = FALSE
    /\ sharedSocket = 0
    /\ sockets = <<>>
    /\ calls = <<>>

HostIdle ==
    /\ SignalIdle
    /\ LockIdle
    /\ disk = <<>>

-----------------------------------------------------------------------------
(* matchSkills(taskDescription, skills, minConfidence) *)

InitMatch ==
    /\ pc = "call"
    /\ skills \in SkillLists
    /\ taskDescription \in Tasks
    /\ minConfidenceIn \in MinConfidences
    /\ minConfidence = minConfidenceIn
    /\ matches = <<>>
    /\ ConflictIdle
    /\ AnalyzeIdle
    /\ TokenIdle
    /\ DbIdle
    /\ HostIdle

MatchSkills ==
    /\ pc = "call"
    /\ pc' = "done"
    /\ minConfidence' = clampMinConfidence(minConfidence)
    /\ matches' = matchSkills(taskDescription, skills, minConfidence)
    /\ UNCHANGED <<skills, taskDescription, minConfidenceIn,
                   conflictVars, analyzeVars, tokenVars, dbVars, hostVars>>

NextMatch == MatchSkills

SpecMatch == InitMatch /\ [][NextMatch]_vars

-----------------------------------------------------------------------------
(* Properties of matchSkills, checked under SpecMatch *)

Returned == pc = "done"

MatchIds(ms) == {ms[i].skill_id : i \in 1..Len(ms)}

TaskTokens == tokenize(toLowerCase(taskDescription))
TaskKeywords == extractKeywords(taskDescription)

ActiveSkills == {i \in 1..Len(skills) : ~IsDeprecated(skills[i])}

\* C1: every match returned by matchSkills has a confidence c with
\* 0 <= c <= 1 (the component sum is clamped to at most 1.0).
C1_ConfidenceInUnitInterval ==
    Returned =>
        \A i \in 1..Len(matches) :
            /\ RLe(Zero, matches[i].confidence)
            /\ RLe(matches[i].confidence, One)

\* C1 witness: a returned match whose component sum exceeds 1 before the clamp
C1_Witness ==
    /\ Returned
    /\ \E i \in ActiveSkills :
          /\ RLt(One, scoreSum(taskDescription, TaskTokens, TaskKeywords, skills[i]))
          /\ \E k \in 1..Len(matches) :
                /\ matches[k].skill_id = skills[i].id
                /\ matches[k].confidence = One

\* C2: the list returned by matchSkills is ordered by non-increasing
\* confidence: matches[i].confidence >= matches[i+1].confidence.
C2_SortedByConfidence ==
    Returned =>
        \A i \in 1..(Len(matches) - 1) :
            RLe(matches[i + 1].confidence, matches[i].confidence)

\* C2 witness: two matches of different confidence returned in the opposite
\* of their order in the skill list
C2_Witness ==
    /\ Returned
    /\ Len(matches) = 2
    /\ Len(skills) = 2
    /\ matches[1].skill_id = skills[2].id
    /\ matches[2].skill_id = skills[1].id
    /\ RLt(matches[2].confidence, matches[1].confidence)

\* Jaccard similarity |A \cap B| / |A \cup B| of two token sets (0 for two
\* empty sets)
Jaccard(A, B) ==
    IF A \cup B = {} THEN Zero
    ELSE Rat(Cardinality(A \cap B), Cardinality(A \cup B))

\* C3: the description-overlap value used by matchSkills equals the Jaccard
\* similarity of the task token set and the skill-description token set (and
\* so lies in [0,1]), also when a token is repeated.
C3_OverlapIsJaccard ==
    Returned =>
        \A i \in 1..Len(skills) :
            LET descTokens == tokenize(toLowerCase(skills[i].description))
                descOverlap == calculateOverlap(TaskTokens, descTokens)
            IN  /\ descOverlap = Jaccard(SetOf(TaskTokens), SetOf(descTokens))
                /\ RLe(Zero, descOverlap)
                /\ RLe(descOverlap, One)

\* C4: a minConfidence outside [0,1] is clamped into [0,1], never an error,
\* and raising the threshold never adds a match: every match returned at a
\* threshold t2 >= t1 is also returned at t1.
C4_ClampAndMonotone ==
    Returned =>
        /\ RLe(Zero, minConfidence) /\ RLe(minConfidence, One)
        /\ minConfidence = (IF RLt(minConfidenceIn, Zero) THEN Zero
                            ELSE IF RLt(One, minConfidenceIn) THEN One
                            ELSE minConfidenceIn)
        /\ \A i \in 1..Len(matches) : RLe(minConfidence, matches[i].confidence)
        /\ \A t \in MinConfidences :
              RLe(minConfidenceIn, t) =>
                  MatchIds(matchSkills(taskDescription, skills, t))
                      \subseteq MatchIds(matches)

\* C4 witness: a call with a threshold above 1 that still returns a match
\* (of confidence 1), and a higher in-range threshold that drops a match
C4_Witness ==
    /\ Returned
    /\ RLt(One, minConfidenceIn)
    /\ Len(matches) > 0
    /\ \E t \in MinConfidences :
          /\ RLt(t, minConfidenceIn)
          /\ MatchIds(matchSkills(taskDescription, skills, t)) # MatchIds(matches)

\* C5: a skill whose deprecated_at is present is never returned by
\* matchSkills, whatever its score and whatever the threshold.
C5_DeprecatedNeverReturned ==
    Returned =>
        \A i \in 1..Len(skills) :
            "deprecated_at" \in DOMAIN skills[i] =>
                skills[i].id \notin MatchIds(matches)

\* C5 witness: a deprecated skill that scores above the threshold is left
\* out while another skill is returned
C5_Witness ==
    /\ Returned
    /\ Len(matches) > 0
    /\ \E i \in 1..Len(skills) :
          /\ "deprecated_at" \in DOMAIN skills[i]
          /\ RLt(Zero, minConfidence)
          /\ RLe(minConfidence,
                 calculateMatchConfidence(taskDescription, TaskTokens,
                                          TaskKeywords, skills[i]))
          /\ skills[i].id \notin MatchIds(matches)

\* C6 as stated: matchSkills returns the empty list for an empty skill list,
\* and for the empty task with a threshold above 0 whatever the skill list.
C6_EmptyInputsGiveNoMatch ==
    Returned =>
        /\ (skills = <<>> => matches = <<>>)
        /\ (taskDescription = "" /\ RLt(Zero, minConfidenceIn) => matches = <<>>)

\* C6 amended: matchSkills returns the empty list for an empty skill list,
\* and for the empty task with a threshold above 0 when every non-deprecated
\* skill of the list has a non-empty name.
C6_EmptyInputsGiveNoMatchNamed ==
    Returned =>
        /\ (skills = <<>> => matches = <<>>)
        /\ (/\ taskDescription = ""
            /\ RLt(Zero, minConfidenceIn)
            /\ \A i \in ActiveSkills : skills[i].name # ""
            => matches = <<>>)

\* C6 witness: the empty task against active, named skills returns nothing
C6_Witness ==
    /\ Returned
    /\ taskDescription = ""
    /\ RLt(Zero, minConfidenceIn)
    /\ Cardinality(ActiveSkills) = 2
    /\ \A i \in ActiveSkills : skills[i].name # ""
    /\ matches = <<>>

-----------------------------------------------------------------------------
(* detectSkillConflicts(newSkill, existingSkills, overlapThreshold) *)

\* Existing skills the detector is run against: the catalogue above and a
\* skill without tags
ConflictPool ==
    SkillPool \cup
    { [id |-> "s6", name |-> "code-review", description |-> "Review code changes"] }

ExistingLists ==
    {l \in UNION {[1..n -> ConflictPool] : n \in 0..MaxSkills} :
        \A i, j \in 1..Len(l) : i # j => l[i].id # l[j].id}

\* The {name, description, tags?} definition of a skill
DefinitionOf(skill) ==
    IF "tags" \in DOMAIN skill
    THEN [name |-> skill.name, description |-> skill.description, tags |-> skill.tags]
    ELSE [name |-> skill.name, description |-> skill.description]

NewSkills == {DefinitionOf(s) : s \in ConflictPool}

\* overlapThreshold arguments (0.8 is the default)
OverlapThresholds == {Zero, <<1, 2>>, <<4, 5>>, <<19, 20>>}

InitConflict ==
    /\ pc = "call"
    /\ skills \in ExistingLists
    /\ newSkill \in NewSkills
    /\ overlapThreshold \in OverlapThresholds
    /\ conflicts = <<>>
    /\ MatchIdle
    /\ AnalyzeIdle
    /\ TokenIdle
    /\ DbIdle
    /\ HostIdle

DetectSkillConflicts ==
    /\ pc = "call"
    /\ pc' = "done"
    /\ conflicts' = detectSkillConflicts(newSkill, skills, overlapThreshold)
    /\ UNCHANGED <<skills, newSkill, overlapThreshold,
                   taskDescription, minConfidenceIn, minConfidence, matches,
                   analyzeVars, tokenVars, dbVars, hostVars>>

NextConflict == DetectSkillConflicts

SpecConflict == InitConflict /\ [][NextConflict]_vars

-----------------------------------------------------------------------------
(* Properties of detectSkillConflicts, checked under SpecConflict *)

ConflictIds(cs) == {cs[i].existing_skill_id : i \in 1..Len(cs)}

\* C7: the conflict overlap score is symmetric: the weighted score computed
\* for new skill A against existing skill B equals the score computed for
\* new skill B against existing skill A.
C7_OverlapScoreSymmetric ==
    Returned =>
        \A i \in 1..Len(skills) :
            overlapScore(newSkill, skills[i])
                = overlapScore(DefinitionOf(skills[i]), newSkill)

\* C8: every Conflict returned by detectSkillConflicts has an overlap_score
\* in [0,1].
C8_OverlapScoreInUnitInterval ==
    Returned =>
        \A k \in 1..Len(conflicts) :
            /\ RLe(Zero, conflicts[k].overlap_score)
            /\ RLe(conflicts[k].overlap_score, One)

\* An existing skill with the same name, description and tags as the new one
SameDefinition(existing) ==
    /\ existing.name = newSkill.name
    /\ existing.description = newSkill.description
    /\ TagsOf(existing) = TagsOf(newSkill)

ReportedWithAtLeast(existing, score) ==
    \E k \in 1..Len(conflicts) :
        /\ conflicts[k].existing_skill_id = existing.id
        /\ RLe(score, conflicts[k].overlap_score)

\* C9 as stated: against an active skill with identical name, description and
\* tags, detectSkillConflicts (threshold 0.8) returns a conflict for that
\* skill with overlap_score >= 0.95, for every such skill definition.
C9_IdenticalSkillConflicts ==
    Returned /\ overlapThreshold = <<4, 5>> =>
        \A i \in 1..Len(skills) :
            ~IsDeprecated(skills[i]) /\ SameDefinition(skills[i]) =>
                ReportedWithAtLeast(skills[i], <<19, 20>>)

\* The definition has a name token, a description keyword and a tag
FullyDescribed(def) ==
    /\ Len(tokenize(toLowerCase(def.name))) > 0
    /\ Len(extractKeywords(def.description)) > 0
    /\ Len(TagsOf(def)) > 0

\* C9 amended: against an active skill with identical name, description and
\* tags, detectSkillConflicts (threshold 0.8) returns a conflict for that
\* skill with overlap_score >= 0.95 whenever the name yields at least one
\* token, the description at least one keyword and the tag list is not empty.
C9_IdenticalDescribedSkillConflicts ==
    Returned /\ overlapThreshold = <<4, 5>> =>
        \A i \in 1..Len(skills) :
            /\ ~IsDeprecated(skills[i])
            /\ SameDefinition(skills[i])
            /\ FullyDescribed(newSkill)
            => ReportedWithAtLeast(skills[i], <<19, 20>>)

\* C9 witness: an identical, fully described active skill is reported first
C9_Witness ==
    /\ Returned
    /\ overlapThreshold = <<4, 5>>
    /\ Len(skills) = 2
    /\ ~IsDeprecated(skills[2])
    /\ SameDefinition(skills[2])
    /\ FullyDescribed(newSkill)
    /\ Len(conflicts) = 1
    /\ conflicts[1].existing_skill_id = skills[2].id
    /\ conflicts[1].overlap_score = One

\* The weighted sum of the four overlaps, as C10 words it
WeightedOverlap(new, existing) ==
    LET descriptionOverlap ==
            calculateOverlap(tokenize(toLowerCase(new.description)),
                             tokenize(toLowerCase(existing.description)))
        keywordOverlap ==
            calculateOverlap(extractKeywords(new.description),
                             extractKeywords(existing.description))
        tagOverlap ==
            IF TagsOf(new) # <<>> /\ TagsOf(existing) # <<>>
            THEN calculateOverlap(mapLower(TagsOf(new)), mapLower(TagsOf(existing)))
            ELSE Zero
        nameOverlap ==
            calculateOverlap(tokenize(toLowerCase(new.name)),
                             tokenize(toLowerCase(existing.name)))
    IN  <<40 * descriptionOverlap[1] * keywordOverlap[2] * tagOverlap[2] * nameOverlap[2]
            + 30 * keywordOverlap[1] * descriptionOverlap[2] * tagOverlap[2] * nameOverlap[2]
            + 15 * tagOverlap[1] * descriptionOverlap[2] * keywordOverlap[2] * nameOverlap[2]
            + 15 * nameOverlap[1] * descriptionOverlap[2] * keywordOverlap[2] * tagOverlap[2],
          100 * descriptionOverlap[2] * keywordOverlap[2] * tagOverlap[2] * nameOverlap[2]>>

\* C10: detectSkillConflicts reports an existing skill exactly when it is not
\* deprecated and 0.4*descriptionOverlap + 0.3*keywordOverlap + 0.15*tagOverlap
\* + 0.15*nameOverlap >= overlapThreshold (tagOverlap 0 unless both skills
\* have a tag); a deprecated existing skill is never reported.
C10_ReportedIffWeightedAboveThreshold ==
    Returned =>
        /\ ConflictIds(conflicts) =
              {skills[i].id : i \in
                  {j \in 1..Len(skills) :
                      /\ "deprecated_at" \notin DOMAIN skills[j]
                      /\ RLe(overlapThreshold, WeightedOverlap(newSkill, skills[j]))}}
        /\ Len(conflicts) = Cardinality(ConflictIds(conflicts))

\* C10 witness: of two existing skills at or above the threshold, the active
\* one is reported and the deprecated one is not
C10_Witness ==
    /\ Returned
    /\ RLt(Zero, overlapThreshold)
    /\ Len(conflicts) = 1
    /\ \E i, j \in 1..Len(skills) :
          /\ conflicts[1].existing_skill_id = skills[i].id
          /\ ~IsDeprecated(skills[i])
          /\ RLe(overlapThreshold, WeightedOverlap(newSkill, skills[i]))
          /\ IsDeprecated(skills[j])
          /\ RLe(overlapThreshold, WeightedOverlap(newSkill, skills[j]))

-----------------------------------------------------------------------------
(* Token counter (src/src/services/token-counter.ts) *)

CHARS_PER_TOKEN == 4

LAYER1_MAX_TOKENS == 100

LAYER2_MAX_TOKENS == 5000

\* text.split(/\s+/).length, the pieces of length 0 included
wordCountUnfiltered(text) == Len(SplitWhitespace(text))

\* the words of the last line of the text only
wordCountLastLine(text) ==
    LET breaks == {i \in 1..Len(text) : SubSeq(text, i, i) = "\n"}
        start == IF breaks = {} THEN 1
                 ELSE (CHOOSE i \in breaks : \A j \in breaks : j <= i) + 1
    IN  Len(SelectSeq(SplitWhitespace(SubSeq(text, start, Len(text))),
                      LAMBDA w : Len(w) > 0))

\* text.split(/\s+/).filter(w => w.length > 0).length
wordCount(text) == Len(SelectSeq(SplitWhitespace(text), LAMBDA w : Len(w) > 0))

\* Math.ceil(charCount / CHARS_PER_TOKEN)
charBasedEstimate(charCount) ==
    (charCount + CHARS_PER_TOKEN - 1) \div CHARS_PER_TOKEN

\* Math.ceil(wordCount * 1.3): the double 1.3 * n rounds to 13n/10 whenever
\* that is an integer, so the ceiling is the one of the exact product
wordBasedEstimate(wordCount_) == (13 * wordCount_ + 9) \div 10

\* Math.round(sum / 2) for sum >= 0: a half rounds up
roundHalf(sum) == (sum + 1) \div 2

countTokens(text) ==
    IF text = "" THEN 0
    ELSE roundHalf(charBasedEstimate(Len(text))
                     + wordBasedEstimate(wordCount(text)))

\* countLayer1Tokens(name, description): the metadata text and 5 tokens of
\* YAML overhead
countLayer1Tokens(name, description) ==
    countTokens("name: " \o name \o "\ndescription: " \o description) + 5

countLayer2Tokens(fullContent) == countTokens(fullContent)

layerOkStrict(layerTokens, maxTokens) == layerTokens < maxTokens

\* layer1Tokens <= SKILL_CONFIG.LAYER1_MAX_TOKENS, and the same for layer 2
layerOk(layerTokens, maxTokens) == layerTokens <= maxTokens

layer1Warning(layer1Tokens_) ==
    "Layer 1 (metadata) exceeds limit: " \o ToString(layer1Tokens_)
        \o " tokens > " \o ToString(LAYER1_MAX_TOKENS) \o " max"

layer2Warning(layer2Tokens_) ==
    "Layer 2 (full content) exceeds limit: " \o ToString(layer2Tokens_)
        \o " tokens > " \o ToString(LAYER2_MAX_TOKENS) \o " max"

checkProgressiveDisclosure(layer1Tokens_, layer2Tokens_) ==
    LET layer1Ok == layerOk(layer1Tokens_, LAYER1_MAX_TOKENS)
        layer2Ok == layerOk(layer2Tokens_, LAYER2_MAX_TOKENS)
        warnings1 == IF ~layer1Ok THEN <<layer1Warning(layer1Tokens_)>>
                     ELSE <<>>
        warnings2 == IF ~layer2Ok THEN <<layer2Warning(layer2Tokens_)>>
                     ELSE <<>>
    IN  [ok |-> layer1Ok /\ layer2Ok,
         layer1Ok |-> layer1Ok,
         layer2Ok |-> layer2Ok,
         warnings |-> warnings1 \o warnings2]

-----------------------------------------------------------------------------
(* countTokens(text) *)

MaxTextLen == 5

\* a word character and two kinds of white space
TextChars == {"a", " ", "\n"}

RECURSIVE StringsOfLen(_)
StringsOfLen(n) ==
    IF n = 0 THEN {""}
    ELSE {s \o c : s \in StringsOfLen(n - 1), c \in TextChars}

Texts == UNION {StringsOfLen(n) : n \in 0..MaxTextLen}

InitCount ==
    /\ pc = "call"
    /\ textIn \in Texts
    /\ tokens = 0
    /\ layer1Tokens = 0
    /\ layer2Tokens = 0
    /\ disclosure = NoDisclosure
    /\ skills = <<>>
    /\ MatchIdle
    /\ ConflictIdle
    /\ AnalyzeIdle
    /\ DbIdle
    /\ HostIdle

CountTokens ==
    /\ pc = "call"
    /\ pc' = "done"
    /\ tokens' = countTokens(textIn)
    /\ UNCHANGED <<textIn, layer1Tokens, layer2Tokens, disclosure,
                   matchVars, conflictVars, analyzeVars, dbVars, hostVars>>

NextCount == CountTokens

SpecCount == InitCount /\ [][NextCount]_vars

-----------------------------------------------------------------------------
(* checkProgressiveDisclosure(layer1Tokens, layer2Tokens) *)

MaxDelta == 5

Layer1Counts == {0} \cup
    ((LAYER1_MAX_TOKENS - MaxDelta)..(LAYER1_MAX_TOKENS + MaxDelta))

Layer2Counts == {0} \cup
    ((LAYER2_MAX_TOKENS - MaxDelta)..(LAYER2_MAX_TOKENS + MaxDelta))

InitDisclosure ==
    /\ pc = "call"
    /\ layer1Tokens \in Layer1Counts
    /\ layer2Tokens \in Layer2Counts
    /\ disclosure = NoDisclosure
    /\ textIn = ""
    /\ tokens = 0
    /\ skills = <<>>
    /\ MatchIdle
    /\ ConflictIdle
    /\ AnalyzeIdle
    /\ DbIdle
    /\ HostIdle

CheckProgressiveDisclosure ==
    /\ pc = "call"
    /\ pc' = "done"
    /\ disclosure' = checkProgressiveDisclosure(layer1Tokens, layer2Tokens)
    /\ UNCHANGED <<textIn, tokens, layer1Tokens, layer2Tokens,
                   matchVars, conflictVars, analyzeVars, dbVars, hostVars>>

NextDisclosure == CheckProgressiveDisclosure

SpecDisclosure == InitDisclosure /\ [][NextDisclosure]_vars

-----------------------------------------------------------------------------
(* Properties of countTokens, checked under SpecCount *)

IsSpaceAt(s, i) == IsSpace(SubSeq(s, i, i))

\* the words of a text are the maximal runs of non-space characters: one
\* starts at every non-space character that is first or follows a space
WordStarts(s) ==
    {i \in 1..Len(s) : ~IsSpaceAt(s, i) /\ (i = 1 \/ IsSpaceAt(s, i - 1))}

\* r = round((c + w) / 2) with c = ceil(chars / 4) and w = ceil(words * 1.3),
\* each stated by the inequalities that define ceiling and rounding
IsTokenEstimate(r, chars, words) ==
    \E c \in 0..chars, w \in 0..(2 * words) :
        /\ 4 * (c - 1) < chars /\ chars <= 4 * c
        /\ 10 * (w - 1) < 13 * words /\ 13 * words <= 10 * w
        /\ 2 * r - 1 <= c + w /\ c + w < 2 * r + 1

\* C12: countTokens returns 0 for the empty string and otherwise
\* round((ceil(charCount / 4) + ceil(wordCount * 1.3)) / 2), wordCount being
\* the number of whitespace-separated non-empty words; the result is a
\* non-negative integer.
C12_CountTokensFormula ==
    pc = "done" =>
        /\ tokens \in Nat
        /\ textIn = "" => tokens = 0
        /\ textIn # "" =>
               IsTokenEstimate(tokens, Len(textIn),
                               Cardinality(WordStarts(textIn)))

\* a text with leading white space and two words whose estimate is a half
C12_Witness ==
    /\ pc = "done"
    /\ textIn # ""
    /\ IsSpaceAt(textIn, 1)
    /\ Cardinality(WordStarts(textIn)) = 2
    /\ tokens = 3

-----------------------------------------------------------------------------
(* Properties of checkProgressiveDisclosure, checked under SpecDisclosure *)

\* C13: layer1Ok iff layer1Tokens <= 100, layer2Ok iff layer2Tokens <= 5000,
\* ok iff both, and exactly one warning for each layer that exceeds its
\* limit, the boundary values 100 and 5000 being within the limits.
C13_DisclosureLimits ==
    pc = "done" =>
        /\ disclosure.layer1Ok <=> layer1Tokens <= 100
        /\ disclosure.layer2Ok <=> layer2Tokens <= 5000
        /\ disclosure.ok <=> (disclosure.layer1Ok /\ disclosure.layer2Ok)
        /\ Len(SelectSeq(disclosure.warnings,
                         LAMBDA w : SubSeq(w, 1, 7) = "Layer 1"))
             = (IF layer1Tokens > 100 THEN 1 ELSE 0)
        /\ Len(SelectSeq(disclosure.warnings,
                         LAMBDA w : SubSeq(w, 1, 7) = "Layer 2"))
             = (IF layer2Tokens > 5000 THEN 1 ELSE 0)
        /\ Len(disclosure.warnings)
             = (IF layer1Tokens > 100 THEN 1 ELSE 0)
                 + (IF layer2Tokens > 5000 THEN 1 ELSE 0)

\* layer 1 at its boundary, layer 2 one above its own
C13_Witness ==
    /\ pc = "done"
    /\ layer1Tokens = 100
    /\ layer2Tokens = 5001
    /\ disclosure.layer1Ok
    /\ ~disclosure.ok
    /\ Len(disclosure.warnings) = 1

-----------------------------------------------------------------------------
(* analyzeDescription(description, intendedTriggers)                       *)
(* (src/src/services/skill-matcher.ts, lines 314-393)                      *)

MIN_DESCRIPTION_LENGTH == 20

MAX_DESCRIPTION_LENGTH == 500

\* the length check with both comparisons inclusive
lengthAdjustmentInclusive(length) ==
    IF length <= MIN_DESCRIPTION_LENGTH THEN <<-2, 10>>
    ELSE IF length >= MAX_DESCRIPTION_LENGTH THEN <<-1, 10>>
    ELSE <<1, 10>>

\* Lines 331-339: the length check
lengthAdjustment(length) ==
    IF length < MIN_DESCRIPTION_LENGTH THEN <<-2, 10>>
    ELSE IF length > MAX_DESCRIPTION_LENGTH THEN <<-1, 10>>
    ELSE <<1, 10>>

\* keyword density with a penalty of 0.3 for fewer than 3 keywords
keywordAdjustmentHeavy(keywordCount) ==
    IF keywordCount < 3 THEN <<-3, 10>>
    ELSE IF keywordCount >= 5 THEN <<2, 10>>
    ELSE Zero

\* Lines 341-347: keyword density
keywordAdjustment(keywordCount) ==
    IF keywordCount < 3 THEN <<-1, 10>>
    ELSE IF keywordCount >= 5 THEN <<2, 10>>
    ELSE Zero

actionWords ==
    <<"use", "create", "build", "fix", "help", "manage", "handle", "process">>

genericWords == <<"anything", "everything", "all", "any", "general", "various">>

\* words.some(w => description.toLowerCase().includes(w))
someIncluded(words, description) ==
    LET descLower == toLowerCase(description)
    IN  \E i \in 1..Len(words) : includes(descLower, words[i])

\* intendedTriggers.filter(t => descLower.includes(t.toLowerCase()))
coveredTriggers(description, intendedTriggers_) ==
    LET descLower == toLowerCase(description)
    IN  SelectSeq(intendedTriggers_,
                  LAMBDA t : includes(descLower, toLowerCase(t)))

\* coveredTriggers.length / intendedTriggers.length
triggerCoverage(description, intendedTriggers_) ==
    Rat(Len(coveredTriggers(description, intendedTriggers_)),
        Len(intendedTriggers_))

\* Math.max(0, Math.min(1, clarityScore))
clampClarity(clarityScore) == RMax(Zero, RMin(One, clarityScore))

analyzeDescription(description, intendedTriggers_) ==
    LET keywords == extractKeywords(description)
        length == Len(description)
        hasActionWords == someIncluded(actionWords, description)
        hasTriggers == Len(intendedTriggers_) > 0
        coverage == triggerCoverage(description, intendedTriggers_)
        tooBroad == someIncluded(genericWords, description)
        tooNarrow == Len(keywords) < 3 /\ length < 50
        clarityScore ==
            RAdd(RAdd(RAdd(RAdd(<<1, 2>>, lengthAdjustment(length)),
                           keywordAdjustment(Len(keywords))),
                      IF hasActionWords THEN <<1, 10>> ELSE Zero),
                 IF hasTriggers THEN RMul(coverage, <<2, 10>>) ELSE Zero)
        suggestions ==
            (IF length < MIN_DESCRIPTION_LENGTH
             THEN <<"Description is too short. Add more detail about when to use this skill.">>
             ELSE IF length > MAX_DESCRIPTION_LENGTH
             THEN <<"Description is too long. Consider being more concise.">>
             ELSE <<>>)
            \o (IF Len(keywords) < 3
                THEN <<"Add more specific keywords to improve discoverability.">>
                ELSE <<>>)
            \o (IF hasActionWords THEN <<>>
                ELSE <<"Consider adding action words (use, create, build, fix, etc.)">>)
            \o (IF hasTriggers /\ RLt(coverage, <<1, 2>>)
                THEN <<"Only " \o ToString(RoundInt(RMul(coverage, <<100, 1>>)))
                         \o "% of intended triggers are in the description">>
                ELSE <<>>)
            \o (IF tooBroad
                THEN <<"Description may be too broad. Add specific use cases.">>
                ELSE <<>>)
            \o (IF tooNarrow
                THEN <<"Description may be too narrow. Add related use cases.">>
                ELSE <<>>)
    IN  [clarity_score |-> clampClarity(clarityScore),
         trigger_keywords |-> keywords,
         suggestions |-> suggestions,
         too_broad |-> tooBroad,
         too_narrow |-> tooNarrow]

MaxTriggers == 2

RECURSIVE Repeat(_, _)
Repeat(s, n) == IF n = 0 THEN "" ELSE s \o Repeat(s, n - 1)

\* a description of exactly MAX_DESCRIPTION_LENGTH characters
LongDescription == Repeat("deploy it ", MAX_DESCRIPTION_LENGTH \div 10)

\* descriptions on both sides of the two length limits, with fewer than 3,
\* with 3 to 4 and with 5 or more keywords, with and without an action word
Descriptions ==
    {"",
     "Fix it",
     "deploy git workflow",
     "deploy git workflows",
     "deploy release pipeline today",
     "Deploy the release pipeline, handle rollback workflow safely",
     "Use for anything: deploy release pipeline rollback workflow",
     "deploy release pipeline because rollback",
     LongDescription,
     LongDescription \o "s"}

TriggerPool == {"Deploy", "rollback", "kubernetes"}

RECURSIVE SeqsOfLen(_, _)
SeqsOfLen(S, n) ==
    IF n = 0 THEN {<<>>}
    ELSE {Append(q, x) : q \in SeqsOfLen(S, n - 1), x \in S}

TriggerLists == UNION {SeqsOfLen(TriggerPool, n) : n \in 0..MaxTriggers}

InitAnalyze ==
    /\ pc = "call"
    /\ descriptionIn \in Descriptions
    /\ intendedTriggers \in TriggerLists
    /\ analysis = NoAnalysis
    /\ skills = <<>>
    /\ MatchIdle
    /\ ConflictIdle
    /\ TokenIdle
    /\ DbIdle
    /\ HostIdle

AnalyzeDescription ==
    /\ pc = "call"
    /\ pc' = "done"
    /\ analysis' = analyzeDescription(descriptionIn, intendedTriggers)
    /\ UNCHANGED <<descriptionIn, intendedTriggers,
                   matchVars, conflictVars, tokenVars, dbVars, hostVars>>

NextAnalyze == AnalyzeDescription

SpecAnalyze == InitAnalyze /\ [][NextAnalyze]_vars

-----------------------------------------------------------------------------
(* Properties of analyzeDescription, checked under SpecAnalyze *)

KeywordCount == Len(extractKeywords(descriptionIn))

HasActionWord ==
    \E w \in {"use", "create", "build", "fix", "help", "manage", "handle",
              "process"} : includes(toLowerCase(descriptionIn), w)

CoveredCount ==
    Cardinality({i \in 1..Len(intendedTriggers) :
        includes(toLowerCase(descriptionIn), toLowerCase(intendedTriggers[i]))})

\* the clarity score before clamping, times 10 * TriggerDen
TriggerDen == IF Len(intendedTriggers) = 0 THEN 1 ELSE Len(intendedTriggers)

ClarityTenths ==
    TriggerDen * (5
        + (IF Len(descriptionIn) < 20 THEN -2
           ELSE IF Len(descriptionIn) > 500 THEN -1 ELSE 1)
        + (IF KeywordCount < 3 THEN -1
           ELSE IF KeywordCount >= 5 THEN 2 ELSE 0)
        + (IF HasActionWord THEN 1 ELSE 0))
    + (IF Len(intendedTriggers) = 0 THEN 0 ELSE 2 * CoveredCount)

ClampedTenths ==
    IF ClarityTenths < 0 THEN 0
    ELSE IF ClarityTenths > 10 * TriggerDen THEN 10 * TriggerDen
    ELSE ClarityTenths

\* C11: clarity_score is 0.5, plus the length adjustment (-0.2 below 20
\* characters, -0.1 above 500, +0.1 otherwise), plus the keyword adjustment
\* (-0.1 for fewer than 3 keywords, +0.2 for 5 or more, 0 for 3 or 4), plus
\* 0.1 if an action word occurs, plus coverage * 0.2 when a non-empty trigger
\* list is given, clamped to [0, 1].
C11_ClarityScoreFormula ==
    pc = "done" =>
        /\ analysis.clarity_score[2] > 0
        /\ analysis.clarity_score[1] * 10 * TriggerDen
             = ClampedTenths * analysis.clarity_score[2]

\* a description above the upper length limit, with 5 or more keywords, no
\* action word and half of its triggers covered
C11_Witness ==
    /\ pc = "done"
    /\ Len(descriptionIn) > 500
    /\ KeywordCount >= 5
    /\ ~HasActionWord
    /\ Len(intendedTriggers) = 2
    /\ CoveredCount = 1
    /\ analysis.clarity_score = <<7, 10>>

-----------------------------------------------------------------------------
(* The matching engine as a whole: one call of any of its three entry      *)
(* points, each applicable to the arguments at hand                        *)

Init == InitMatch \/ InitConflict \/ InitAnalyze

Next == NextMatch \/ NextConflict \/ NextAnalyze

Spec == Init /\ [][Next]_vars

-----------------------------------------------------------------------------
(* Properties of the engine's ratios, checked under Spec *)

Defined(x) == x[2] > 0

\* C14: no ratio is taken over an empty denominator: calculateOverlap is 0
\* when either list is empty, the keyword fraction is 0 without keywords, the
\* tag fraction is 0 without tags and the trigger coverage is computed only
\* for a non-empty list; so the match confidence and the overlap score of
\* every active skill, every returned confidence and overlap_score and the
\* clarity score are numbers (never NaN), whatever is empty or missing.
C14_NoEmptyDenominator ==
    pc = "done" =>
        /\ calculateOverlap(<<>>, TaskTokens) = Zero
        /\ calculateOverlap(TaskTokens, <<>>) = Zero
        /\ calculateOverlap(<<>>, <<>>) = Zero
        /\ Defined(analysis.clarity_score)
        /\ \A i \in 1..Len(matches) : Defined(matches[i].confidence)
        /\ \A i \in 1..Len(conflicts) : Defined(conflicts[i].overlap_score)
        /\ \A i \in 1..Len(skills) :
               LET skill == skills[i]
               IN  /\ calculateKeywordMatch(<<>>, skill.description,
                                            TagsOf(skill)) = Zero
                   /\ calculateTagMatch(TaskTokens, <<>>) = Zero
                   /\ Defined(calculateKeywordMatch(TaskKeywords,
                          toLowerCase(skill.description),
                          mapLower(TagsOf(skill))))
                   /\ Defined(calculateTagMatch(TaskTokens,
                                                mapLower(TagsOf(skill))))
                   /\ Defined(calculateMatchConfidence(taskDescription,
                          TaskTokens, TaskKeywords, skill))
                   /\ Defined(overlapScore(newSkill, skill))

\* an empty task matched against a skill with empty name, empty description
\* and no tags: the skill is returned with a confidence that is a number
C14_Witness ==
    /\ pc = "done"
    /\ taskDescription = ""
    /\ \E i \in 1..Len(skills), j \in 1..Len(matches) :
           /\ skills[i].name = ""
           /\ skills[i].description = ""
           /\ "tags" \notin DOMAIN skills[i]
           /\ matches[j].skill_id = skills[i].id
           /\ matches[j].confidence = <<1, 2>>

-----------------------------------------------------------------------------
(* SKILL.md generator and parser (src/src/parser/skill-parser.ts).  The     *)
(* skills of the model have no body section (overview, prerequisites,      *)
(* steps, examples, error_handling and limitations are undefined in every  *)
(* call), a single-line description, and names, descriptions and tags that *)
(* YAML reads as plain strings, null or booleans.                          *)

\* s.split(sep) for a single character sep: the pieces between the
\* occurrences of sep, one more than there are occurrences
splitOn(s, sep) ==
    LET at == {i \in 1..Len(s) : SubSeq(s, i, i) = sep}
        nth(k) == CHOOSE i \in at : Cardinality({j \in at : j < i}) = k - 1
    IN  [k \in 1..(Cardinality(at) + 1) |->
            SubSeq(s,
                   IF k = 1 THEN 1 ELSE nth(k - 1) + 1,
                   IF k = Cardinality(at) + 1 THEN Len(s) ELSE nth(k) - 1)]

\* String.prototype.trim: the white space of both ends is dropped
RECURSIVE trim(_)
trim(s) ==
    IF s # "" /\ IsSpace(SubSeq(s, 1, 1)) THEN trim(SubSeq(s, 2, Len(s)))
    ELSE IF s # "" /\ IsSpace(SubSeq(s, Len(s), Len(s)))
    THEN trim(SubSeq(s, 1, Len(s) - 1))
    ELSE s

startsWith(s, prefix) ==
    Len(s) >= Len(prefix) /\ SubSeq(s, 1, Len(prefix)) = prefix

\* generateSkillMd(frontmatter, body) for a body without sections: the
\* frontmatter block (the tags line only for frontmatter.tags &&
\* frontmatter.tags.length > 0), an empty line, the title and an empty line
generateSkillMd(frontmatter, body) ==
    join(<<"---", "name: " \o frontmatter.name>>
           \o (IF includes(frontmatter.description, "\n")
               THEN <<"description: |">>
                      \o [i \in 1..Len(splitOn(frontmatter.description, "\n")) |->
                            "  " \o splitOn(frontmatter.description, "\n")[i]]
               ELSE <<"description: " \o frontmatter.description>>)
           \o (IF "tags" \in DOMAIN frontmatter /\ Len(frontmatter.tags) > 0
               THEN <<"tags: [" \o join(frontmatter.tags, ", ") \o "]">>
               ELSE <<>>)
           \o <<"---", "", "# " \o frontmatter.name, "">>,
         "\n")

\* the index of the line closing the frontmatter block, 0 when the content
\* does not match /^---\s*\n([\s\S]*?)\n---\s*\n?([\s\S]*)$/
closingLine(lines) ==
    IF /\ Len(lines) >= 3
       /\ startsWith(lines[1], "---")
       /\ trim(lines[1]) = "---"
       /\ \E j \in 3..Len(lines) : startsWith(lines[j], "---")
    THEN CHOOSE j \in 3..Len(lines) :
             /\ startsWith(lines[j], "---")
             /\ \A k \in 3..(j - 1) : ~startsWith(lines[k], "---")
    ELSE 0

\* extractFrontmatter(content).frontmatter
extractFrontmatter(content) ==
    LET lines == splitOn(content, "\n")
        j == closingLine(lines)
    IN  IF j = 0 THEN "" ELSE trim(join(SubSeq(lines, 2, j - 1), "\n"))

\* String(parsed.key || '') for a plain scalar of the YAML 1.2 core schema:
\* an empty scalar, ~ and null are null, false is falsy, true prints as "true"
yamlString(scalar) ==
    IF scalar \in {"", "~", "null", "Null", "NULL", "false", "False", "FALSE"}
    THEN ""
    ELSE IF scalar \in {"true", "True", "TRUE"} THEN "true"
    ELSE scalar

\* the scalar after "key:" on the first line of the block mapping that
\* starts with it; the key is absent when no line does
yamlHas(lines, key) ==
    \E i \in 1..Len(lines) : startsWith(lines[i], key \o ":")

yamlValue(lines, key) ==
    LET i == CHOOSE k \in 1..Len(lines) :
                 /\ startsWith(lines[k], key \o ":")
                 /\ \A m \in 1..(k - 1) : ~startsWith(lines[m], key \o ":")
    IN  trim(SubSeq(lines[i], Len(key) + 2, Len(lines[i])))

\* a flow sequence [a, b] of plain scalars, each printed by String
yamlFlowSeq(value) ==
    LET inner == trim(SubSeq(value, 2, Len(value) - 1))
        items == splitOn(inner, ",")
    IN  IF inner = "" THEN <<>>
        ELSE [i \in 1..Len(items) |-> trim(items[i])]

\* Array.isArray(parsed.tags)
yamlIsSeq(value) ==
    Len(value) >= 2 /\ SubSeq(value, 1, 1) = "["
        /\ SubSeq(value, Len(value), Len(value)) = "]"

\* parseFrontmatter(frontmatter): tags is absent from the record when
\* undefined
parseFrontmatter(frontmatter) ==
    LET lines == splitOn(frontmatter, "\n")
        name == IF yamlHas(lines, "name")
                THEN yamlString(yamlValue(lines, "name")) ELSE ""
        description == IF yamlHas(lines, "description")
                       THEN yamlString(yamlValue(lines, "description")) ELSE ""
    IN  IF frontmatter = "" THEN [name |-> "", description |-> ""]
        ELSE IF yamlHas(lines, "tags") /\ yamlIsSeq(yamlValue(lines, "tags"))
        THEN [name |-> name, description |-> description,
              tags |-> yamlFlowSeq(yamlValue(lines, "tags"))]
        ELSE [name |-> name, description |-> description]

\* parseSkillMd(content).frontmatter
parseSkillMd(content) == parseFrontmatter(extractFrontmatter(content))

-----------------------------------------------------------------------------
(* Storage: DatabaseManager (database schema module).  A database is a     *)
(* record of its tables skills, skill_versions and skill_usages, each the  *)
(* sequence of its rows in insertion order; the SQL NULL of deprecated_at  *)
(* is 0.                                                                   *)

EmptyDb == [skills |-> <<>>, versions |-> <<>>, usages |-> <<>>]

\* Date.now(): a positive timestamp; no timestamp of the model is compared
\* with another one, so one value stands for all
Timestamps == {1}

\* uuidv4(): an id no row has yet
newId(db_) == "k" \o ToString(Len(db_.skills) + 1)

HasSkill(db_, id) == \E i \in 1..Len(db_.skills) : db_.skills[i].id = id

RowIndex(db_, id) == CHOOSE i \in 1..Len(db_.skills) : db_.skills[i].id = id

\* a uniqueness that looks at the active rows only
NameTakenAmongActive(db_, name, id) ==
    \E i \in 1..Len(db_.skills) :
        /\ db_.skills[i].name = name
        /\ db_.skills[i].id # id
        /\ db_.skills[i].deprecated_at = 0

\* name TEXT UNIQUE NOT NULL: another row holds the name
NameTaken(db_, name, id) ==
    \E i \in 1..Len(db_.skills) :
        db_.skills[i].name = name /\ db_.skills[i].id # id

\* rowToSkill: success_rate is computed, a NULL deprecated_at is undefined
rowToSkill(row) ==
    LET skill == [id |-> row.id, name |-> row.name,
                  description |-> row.description,
                  full_content |-> row.full_content,
                  version |-> row.version,
                  token_count_layer1 |-> row.token_count_layer1,
                  token_count_layer2 |-> row.token_count_layer2,
                  tags |-> row.tags,
                  usage_count |-> row.usage_count,
                  success_count |-> row.success_count,
                  success_rate |-> IF row.usage_count > 0
                                   THEN Rat(row.success_count, row.usage_count)
                                   ELSE Zero]
    IN  IF row.deprecated_at # 0
        THEN skill @@ [deprecated_at |-> row.deprecated_at]
        ELSE skill

rowToMetadata(row) ==
    LET meta == [id |-> row.id, name |-> row.name,
                 description |-> row.description,
                 tags |-> row.tags,
                 token_count_layer1 |-> row.token_count_layer1,
                 token_count_layer2 |-> row.token_count_layer2,
                 usage_count |-> row.usage_count,
                 success_rate |-> IF row.usage_count > 0
                                  THEN Rat(row.success_count, row.usage_count)
                                  ELSE Zero]
    IN  IF row.deprecated_at # 0
        THEN meta @@ [deprecated_at |-> row.deprecated_at]
        ELSE meta

\* DatabaseManager.getSkill: defined when HasSkill
dbGetSkill(db_, id) == rowToSkill(db_.skills[RowIndex(db_, id)])

\* a selection without the WHERE clause
selectRowsAll(db_, includeDeprecated) == db_.skills

\* WHERE deprecated_at IS NULL, unless deprecated rows are asked for
selectRows(db_, includeDeprecated) ==
    SelectSeq(db_.skills,
              LAMBDA row : includeDeprecated \/ row.deprecated_at = 0)

\* getAllSkills: ORDER BY created_at DESC, the latest insertion first
getAllSkills(db_, includeDeprecated) ==
    LET rows == selectRows(db_, includeDeprecated)
    IN  [i \in 1..Len(rows) |-> rowToSkill(rows[Len(rows) + 1 - i])]

\* getSkillMetadata: ORDER BY usage_count DESC, equal counts in row order
getSkillMetadata(db_, includeDeprecated) ==
    LET rows == selectRows(db_, includeDeprecated)
        order == SortOrderDesc([i \in 1..Len(rows) |-> <<rows[i].usage_count, 1>>])
    IN  [k \in 1..Len(rows) |-> rowToMetadata(rows[order[k]])]

\* insertVersion
insertVersion(db_, version) ==
    [db_ EXCEPT !.versions = Append(@, version)]

\* insertSkill when the INSERT succeeds: the row, then its initial version
insertSkill(db_, skill) ==
    LET row == [id |-> skill.id, name |-> skill.name,
                description |-> skill.description,
                full_content |-> skill.full_content,
                version |-> IF skill.version = 0 THEN 1 ELSE skill.version,
                token_count_layer1 |-> skill.token_count_layer1,
                token_count_layer2 |-> skill.token_count_layer2,
                tags |-> skill.tags,
                deprecated_at |-> 0,
                usage_count |-> skill.usage_count,
                success_count |-> skill.success_count]
    IN  insertVersion([db_ EXCEPT !.skills = Append(@, row)],
                      [skill_id |-> skill.id,
                       version |-> row.version,
                       content |-> skill.full_content])

\* an UPDATE that leaves the stored token counts as they were
updatedRowStaleCounts(row, updates, newVersion) ==
    [f \in DOMAIN row |->
        IF f = "version" THEN newVersion
        ELSE IF f \in DOMAIN updates
                /\ f \notin {"token_count_layer1", "token_count_layer2"}
        THEN updates[f]
        ELSE row[f]]

\* the row after UPDATE skills SET <the fields of updates>, version = ?
updatedRow(row, updates, newVersion) ==
    [f \in DOMAIN row |->
        IF f = "version" THEN newVersion
        ELSE IF f \in DOMAIN updates THEN updates[f]
        ELSE row[f]]

\* a version number two above the current one
newVersionSkipping(row) == row.version + 2

\* (skill.version || 1) + 1
newVersionOf(row) == (IF row.version = 0 THEN 1 ELSE row.version) + 1

\* DatabaseManager.updateSkill when the skill exists and the UPDATE succeeds:
\* the version record is written only for a truthy updates.full_content
dbUpdateSkill(db_, id, updates) ==
    LET i == RowIndex(db_, id)
        row == db_.skills[i]
        newVersion == newVersionOf(row)
        updated == [db_ EXCEPT !.skills[i] = updatedRow(row, updates, newVersion)]
    IN  IF "full_content" \in DOMAIN updates /\ updates.full_content # ""
        THEN insertVersion(updated, [skill_id |-> id,
                                     version |-> newVersion,
                                     content |-> updates.full_content])
        ELSE updated

\* deprecateSkill when the skill exists
deprecateSkill(db_, id, now) ==
    [db_ EXCEPT !.skills[RowIndex(db_, id)].deprecated_at = now]

\* insertUsage counting every outcome as a success
insertUsageAllSuccess(db_, usage) ==
    LET i == RowIndex(db_, usage.skill_id)
    IN  [db_ EXCEPT !.usages = Append(@, usage),
                    !.skills[i].usage_count = @ + 1,
                    !.skills[i].success_count = @ + 1]

\* insertUsage when the skill exists (the foreign key of skill_usages
\* rejects any other skill_id): the usage row, then the counters
insertUsage(db_, usage) ==
    LET i == RowIndex(db_, usage.skill_id)
    IN  [db_ EXCEPT !.usages = Append(@, usage),
                    !.skills[i].usage_count = @ + 1,
                    !.skills[i].success_count =
                        @ + (IF usage.outcome = "success" THEN 1 ELSE 0)]

-----------------------------------------------------------------------------
(* The tools over the database.  A call yields the database after it and   *)
(* its result; a result with an error field is a thrown Error (for the     *)
(* DELETE route, the error response).                                      *)

MIN_MATCH_CONFIDENCE == <<3, 10>>

Failure(db_, op, message) ==
    [db |-> db_, result |-> [op |-> op, error |-> message]]

\* the call returns without throwing
notFoundIgnored(db_, op, id) ==
    [db |-> db_, result |-> [op |-> op, skill_id |-> id]]

\* throw new Error(`Skill not found: ${id}`)
notFound(db_, op, id) == Failure(db_, op, "Skill not found: " \o id)

\* /^[a-zA-Z0-9_-]+$/.test(name) and 1 to 100 characters
validName(name) ==
    /\ name # ""
    /\ Len(name) <= 100
    /\ \A i \in 1..Len(name) :
           LET c == SubSeq(name, i, i) IN IsWordChar(c) \/ c = "-"

\* createSkill(input); input.tags and the body sections are undefined
createSkill(db_, input) ==
    IF ~validName(input.name)
    THEN Failure(db_, "create_skill", "Invalid skill name. Must be 1-100 characters, alphanumeric with hyphens and underscores only.")
    ELSE IF input.description = ""
    THEN Failure(db_, "create_skill", "description is required and must be a string")
    ELSE IF trim(input.description) = ""
    THEN Failure(db_, "create_skill", "description cannot be empty")
    ELSE
    LET conflicts_ ==
            detectSkillConflicts([name |-> input.name,
                                  description |-> input.description],
                                 getAllSkills(db_, FALSE), <<4, 5>>)
        fullContent ==
            generateSkillMd([name |-> input.name,
                             description |-> input.description],
                            [raw_body |-> ""])
        layer1 == countLayer1Tokens(input.name, input.description)
        layer2 == countLayer2Tokens(fullContent)
        skillId == newId(db_)
        created == [op |-> "create_skill",
                    skill_id |-> skillId,
                    path |-> "skills/" \o input.name \o "/SKILL.md",
                    created |-> TRUE,
                    token_count |-> [layer1 |-> layer1, layer2 |-> layer2]]
    IN  IF NameTaken(db_, input.name, skillId)
        THEN Failure(db_, "create_skill", "UNIQUE constraint failed: skills.name")
        ELSE [db |-> insertSkill(db_,
                        [id |-> skillId, name |-> input.name,
                         description |-> input.description,
                         full_content |-> fullContent,
                         version |-> 1,
                         token_count_layer1 |-> layer1,
                         token_count_layer2 |-> layer2,
                         tags |-> <<>>,
                         usage_count |-> 0,
                         success_count |-> 0]),
              result |-> IF Len(conflicts_) > 0
                         THEN created @@ [conflicts |-> conflicts_]
                         ELSE created]

\* a ?? b for an optional field of the updates
orElse(updates, field, parsed) ==
    IF field \in DOMAIN updates THEN updates[field] ELSE parsed[field]

\* updateSkill(input): input.updates holds name, description or tags
updateSkill(db_, input) ==
    LET \* return: the version is read back from the updated skill
        returned(updated, previousVersion) ==
            [db |-> updated,
             result |-> [op |-> "update_skill",
                         updated |-> TRUE,
                         skill_id |-> input.skill_id,
                         previous_version |-> previousVersion,
                         new_version |->
                             IF dbGetSkill(updated, input.skill_id).version = 0
                             THEN previousVersion + 1
                             ELSE dbGetSkill(updated, input.skill_id).version]]
        \* db.updateSkill: the UPDATE throws on the UNIQUE constraint of
        \* skills.name; tags: undefined is no update of the tags
        stored(previousVersion, newFrontmatter, newContent) ==
            IF NameTaken(db_, newFrontmatter.name, input.skill_id)
            THEN Failure(db_, "update_skill",
                         "UNIQUE constraint failed: skills.name")
            ELSE returned(
                     dbUpdateSkill(db_, input.skill_id,
                         [field \in DOMAIN newFrontmatter |->
                              newFrontmatter[field]]
                         @@ [full_content |-> newContent,
                             token_count_layer1 |->
                                 countLayer1Tokens(newFrontmatter.name,
                                                   newFrontmatter.description),
                             token_count_layer2 |->
                                 countLayer2Tokens(newContent)]),
                     previousVersion)
        generated(previousVersion, newFrontmatter) ==
            stored(previousVersion, newFrontmatter,
                   generateSkillMd(newFrontmatter, [raw_body |-> ""]))
        \* newFrontmatter: each field from the updates ?? the parsed content
        merged(skill, parsed) ==
            generated(skill.version,
                [field \in {"name", "description"}
                           \cup ({"tags"} \cap (DOMAIN input.updates
                                                     \cup DOMAIN parsed)) |->
                     orElse(input.updates, field, parsed)])
        read(skill) == merged(skill, parseSkillMd(skill.full_content))
    IN  IF input.skill_id = ""
        THEN Failure(db_, "update_skill",
                     "skill_id is required and must be a string")
        ELSE IF "name" \in DOMAIN input.updates /\ trim(input.updates.name) = ""
        THEN Failure(db_, "update_skill",
                     "updates.name must be a non-empty string")
        ELSE IF ~HasSkill(db_, input.skill_id)
        THEN notFound(db_, "update_skill", input.skill_id)
        ELSE read(dbGetSkill(db_, input.skill_id))

validOutcomes == <<"success", "failure", "partial">>

\* recordSkillUsage(input)
recordSkillUsage(db_, input, now) ==
    IF input.skill_id = ""
    THEN Failure(db_, "record_skill_usage", "skill_id is required and must be a string")
    ELSE IF trim(input.skill_id) = ""
    THEN Failure(db_, "record_skill_usage", "skill_id cannot be empty")
    ELSE IF ~arrIncludes(validOutcomes, input.outcome)
    THEN Failure(db_, "record_skill_usage",
                 "outcome is required and must be one of: "
                     \o join(validOutcomes, ", "))
    ELSE IF ~HasSkill(db_, input.skill_id)
    THEN notFound(db_, "record_skill_usage", input.skill_id)
    ELSE
    LET recorded == insertUsage(db_, [skill_id |-> input.skill_id,
                                      outcome |-> input.outcome,
                                      created_at |-> now])
        updatedSkill == dbGetSkill(recorded, input.skill_id)
    IN  [db |-> recorded,
         result |-> [op |-> "record_skill_usage",
                     recorded |-> TRUE,
                     skill_id |-> input.skill_id,
                     total_uses |-> IF updatedSkill.usage_count = 0 THEN 1
                                    ELSE updatedSkill.usage_count,
                     success_rate |-> updatedSkill.success_rate]]

\* getSkill(input): by input.skill_id when it is truthy, else by input.name
getSkill(db_, input) ==
    LET byId == "skill_id" \in DOMAIN input /\ input.skill_id # ""
        byName == "name" \in DOMAIN input /\ input.name # ""
        key == IF byId THEN input.skill_id ELSE input.name
        found == IF byId THEN HasSkill(db_, key)
                 ELSE \E i \in 1..Len(db_.skills) : db_.skills[i].name = key
        row == IF byId THEN db_.skills[RowIndex(db_, key)]
               ELSE db_.skills[CHOOSE i \in 1..Len(db_.skills) :
                                   db_.skills[i].name = key]
        skill == rowToSkill(row)
    IN  IF ~byId /\ ~byName
        THEN Failure(db_, "get_skill", "Must provide skill_id or name")
        ELSE IF ~found THEN notFound(db_, "get_skill", key)
        ELSE [db |-> db_,
              result |-> [op |-> "get_skill",
                          skill_id |-> skill.id,
                          name |-> skill.name,
                          description |-> skill.description,
                          full_content |-> skill.full_content,
                          token_counts |-> [layer1 |-> skill.token_count_layer1,
                                            layer2 |-> skill.token_count_layer2],
                          usage_count |-> skill.usage_count,
                          success_rate |-> skill.success_rate,
                          bundled_files |-> <<>>]]

\* listSkills(input): input.include_deprecated || false, then the search and
\* tag filters when given
listSkills(db_, input) ==
    LET all == getSkillMetadata(db_, "include_deprecated" \in DOMAIN input
                                         /\ input.include_deprecated)
        searched ==
            IF "search" \in DOMAIN input /\ input.search # ""
            THEN SelectSeq(all, LAMBDA skill :
                     \/ includes(toLowerCase(skill.name), toLowerCase(input.search))
                     \/ includes(toLowerCase(skill.description),
                                 toLowerCase(input.search)))
            ELSE all
        tagged ==
            IF "tags" \in DOMAIN input /\ Len(input.tags) > 0
            THEN SelectSeq(searched, LAMBDA skill :
                     \E i \in 1..Len(input.tags) :
                         arrIncludes(TagsOf(skill), input.tags[i]))
            ELSE searched
    IN  [db |-> db_,
         result |-> [op |-> "list_skills", input |-> input,
                     skills |-> tagged, count |-> Len(tagged)]]

\* matchSkill(input): the active skills' metadata, matched at
\* input.min_confidence ?? SKILL_CONFIG.MIN_MATCH_CONFIDENCE
matchSkill(db_, input) ==
    IF input.task_description = ""
    THEN Failure(db_, "match_skill", "task_description is required and must be a string")
    ELSE IF trim(input.task_description) = ""
    THEN Failure(db_, "match_skill", "task_description cannot be empty")
    ELSE
    LET minConf == IF "min_confidence" \in DOMAIN input
                   THEN input.min_confidence ELSE MIN_MATCH_CONFIDENCE
        found == matchSkills(input.task_description,
                             getSkillMetadata(db_, FALSE), minConf)
        output == [op |-> "match_skill", matches |-> found]
    IN  [db |-> db_,
         result |-> IF Len(found) > 0
                    THEN output @@ [best_match |-> found[1].skill_id]
                    ELSE output]

\* DELETE /api/skills/:id: db.deprecateSkill, 404 when no row changed
deleteRoute(db_, id, now) ==
    IF HasSkill(db_, id)
    THEN [db |-> deprecateSkill(db_, id, now),
          result |-> [op |-> "deprecate", deprecated |-> TRUE, skill_id |-> id]]
    ELSE Failure(db_, "deprecate", "Skill not found")

-----------------------------------------------------------------------------
(* The skill store as a state machine: tool calls and database calls in    *)
(* any order on one database                                               *)

\* the number of calls that change the database, over one run
MaxOps == 3

\* names for create_skill and for renames; the empty name is invalid
SkillNames == {"deploy", "git-deploy", ""}

SkillDescriptions == {"Deploy git workflow"}

\* the updates of update_skill; <<>> is the object without properties
ToolUpdates ==
    {<<>>, [tags |-> <<"Git">>]}
        \cup {[name |-> n] : n \in SkillNames}

\* the updates of direct DatabaseManager.updateSkill calls
DirectUpdates == {[description |-> "Review code changes"], [full_content |-> "v2"]}

\* outcomes of record_skill_usage; "error" is not a valid one
Outcomes == {"success", "failure", "partial", "error"}

\* the ids of the stored skills and one id no skill has
SkillIds == {db.skills[i].id : i \in 1..Len(db.skills)} \cup {"k0"}

GetInputs ==
    {[skill_id |-> id] : id \in SkillIds} \cup {[name |-> "deploy"], <<>>}

ListInputs == {<<>>, [include_deprecated |-> TRUE], [search |-> "GIT"]}

MatchInputs == {[task_description |-> "deploy the git workflow"]}

RECURSIVE UpdatesUpTo(_)
\* the updates made to the first n stored skills
UpdatesUpTo(n) ==
    IF n = 0 THEN 0 ELSE UpdatesUpTo(n - 1) + updatesDone[db.skills[n].id]

\* the calls that changed the database so far
OpsDone == Len(db.skills) + Len(db.usages) + UpdatesUpTo(Len(db.skills))

InitDb ==
    /\ pc = "serve"
    /\ db = EmptyDb
    /\ result = NoResult
    /\ updatesDone = <<>>
    /\ skills = <<>>
    /\ MatchIdle
    /\ ConflictIdle
    /\ AnalyzeIdle
    /\ TokenIdle
    /\ HostIdle

idleVars == <<pc, matchVars, conflictVars, analyzeVars, tokenVars, hostVars>>

CreateSkill ==
    /\ OpsDone < MaxOps
    /\ \E input \in [name : SkillNames, description : SkillDescriptions] :
           LET call == createSkill(db, input)
           IN  /\ db' = call.db
               /\ result' = call.result
               /\ updatesDone' =
                      IF "error" \in DOMAIN call.result THEN updatesDone
                      ELSE updatesDone @@ (call.result.skill_id :> 0)
    /\ UNCHANGED idleVars

UpdateSkill ==
    /\ \E id \in SkillIds, updates \in ToolUpdates :
           /\ HasSkill(db, id) => OpsDone < MaxOps
           /\ LET call == updateSkill(db, [skill_id |-> id, updates |-> updates])
              IN  /\ db' = call.db
                  /\ result' = call.result
                  /\ updatesDone' =
                         IF "error" \in DOMAIN call.result THEN updatesDone
                         ELSE [updatesDone EXCEPT ![id] = @ + 1]
    /\ UNCHANGED idleVars

\* DatabaseManager.updateSkill called directly: false for an unknown id
DirectUpdateSkill ==
    /\ \E id \in SkillIds, updates \in DirectUpdates :
           /\ HasSkill(db, id) => OpsDone < MaxOps
           /\ IF HasSkill(db, id)
              THEN /\ db' = dbUpdateSkill(db, id, updates)
                   /\ result' = [op |-> "db.updateSkill", skill_id |-> id,
                                 returned |-> TRUE]
                   /\ updatesDone' = [updatesDone EXCEPT ![id] = @ + 1]
              ELSE /\ result' = [op |-> "db.updateSkill", skill_id |-> id,
                                 returned |-> FALSE]
                   /\ UNCHANGED <<db, updatesDone>>
    /\ UNCHANGED idleVars

RecordSkillUsage ==
    /\ OpsDone < MaxOps
    /\ \E id \in SkillIds, outcome \in Outcomes, now \in Timestamps :
           LET call == recordSkillUsage(db, [skill_id |-> id, outcome |-> outcome],
                                        now)
           IN  /\ db' = call.db
               /\ result' = call.result
    /\ UNCHANGED <<updatesDone, idleVars>>

DeprecateSkill ==
    /\ \E id \in SkillIds, now \in Timestamps :
           LET call == deleteRoute(db, id, now)
           IN  /\ db' = call.db
               /\ result' = call.result
    /\ UNCHANGED <<updatesDone, idleVars>>

GetSkill ==
    /\ \E input \in GetInputs : result' = getSkill(db, input).result
    /\ UNCHANGED <<db, updatesDone, idleVars>>

ListSkills ==
    /\ \E input \in ListInputs : result' = listSkills(db, input).result
    /\ UNCHANGED <<db, updatesDone, idleVars>>

MatchSkill ==
    /\ \E input \in MatchInputs : result' = matchSkill(db, input).result
    /\ UNCHANGED <<db, updatesDone, idleVars>>

NextDb ==
    \/ CreateSkill
    \/ UpdateSkill
    \/ DirectUpdateSkill
    \/ RecordSkillUsage
    \/ DeprecateSkill
    \/ GetSkill
    \/ ListSkills
    \/ MatchSkill

SpecDb == InitDb /\ [][NextDb]_vars

\* the store reached through the tools and the DELETE route only
NextTools ==
    \/ CreateSkill
    \/ UpdateSkill
    \/ RecordSkillUsage
    \/ DeprecateSkill
    \/ GetSkill
    \/ ListSkills
    \/ MatchSkill

SpecTools == InitDb /\ [][NextTools]_vars

-----------------------------------------------------------------------------
(* Properties of the skill store                                           *)

StoredIds == {db.skills[i].id : i \in 1..Len(db.skills)}

VersionOf(id) == db.skills[RowIndex(db, id)].version

\* the last call returned without throwing
Succeeded(op) == result.op = op /\ "error" \notin DOMAIN result

\* C15: every successful update raises the version by exactly one: a skill
\* created at version 1 has version n + 1 after n successful updates, and
\* update_skill reports new_version = previous_version + 1, the version stored
C15_VersionIncrements ==
    /\ \A id \in StoredIds : VersionOf(id) = updatesDone[id] + 1
    /\ Succeeded("update_skill") =>
           /\ result.new_version = result.previous_version + 1
           /\ result.new_version = VersionOf(result.skill_id)

\* a skill updated twice, the second time by update_skill
C15_Witness ==
    /\ Succeeded("update_skill")
    /\ updatesDone[result.skill_id] = 2
    /\ result.new_version = 3


\* the version-history records of a skill at one version number
VersionRecords(id, version) ==
    SelectSeq(db.versions,
              LAMBDA v : v.skill_id = id /\ v.version = version)

\* C16: after any sequence of insertSkill and updateSkill calls, every stored
\* skill's current version number has a record in the version history, and
\* that record's content is the skill's current full_content
C16_CurrentVersionRecorded ==
    \A i \in 1..Len(db.skills) :
        LET skill == db.skills[i]
            records == VersionRecords(skill.id, skill.version)
        IN  /\ Len(records) > 0
            /\ \A j \in 1..Len(records) :
                   records[j].content = skill.full_content


\* the usage records of a skill
UsagesOf(id) == SelectSeq(db.usages, LAMBDA u : u.skill_id = id)

\* the usage records of a skill whose outcome is 'success'
SuccessesOf(id) == SelectSeq(UsagesOf(id), LAMBDA u : u.outcome = "success")

\* rate is successCount / usageCount, and 0 when usageCount is 0
IsSuccessRate(rate, successCount, usageCount) ==
    IF usageCount = 0 THEN rate = Zero
    ELSE rate[2] > 0 /\ rate[1] * usageCount = successCount * rate[2]

\* C17: each recorded usage adds 1 to usage_count, and 1 to success_count only
\* for the outcome 'success'; 0 <= success_count <= usage_count; success_rate
\* is success_count / usage_count (0 without usages); recordSkillUsage
\* returns as total_uses the number of usages recorded for the skill
C17_UsageCounters ==
    /\ \A i \in 1..Len(db.skills) :
           LET row == db.skills[i]
           IN  /\ row.usage_count = Len(UsagesOf(row.id))
               /\ row.success_count = Len(SuccessesOf(row.id))
               /\ 0 <= row.success_count
               /\ row.success_count <= row.usage_count
               /\ IsSuccessRate(rowToSkill(row).success_rate,
                                row.success_count, row.usage_count)
    /\ Succeeded("record_skill_usage") =>
           /\ result.total_uses = Len(UsagesOf(result.skill_id))
           /\ IsSuccessRate(result.success_rate,
                            Len(SuccessesOf(result.skill_id)),
                            Len(UsagesOf(result.skill_id)))

\* a skill with one failed use has a successful use recorded: rate 1/2
C17_Witness ==
    /\ Succeeded("record_skill_usage")
    /\ result.total_uses = 2
    /\ result.success_rate = <<1, 2>>
    /\ db.usages[1].outcome = "failure"


\* ids that match no stored skill: one never given, and the next to be given
UnknownIds == {"k0", newId(db)}

\* the call threw and left skills, usage records and version records alone
ThrewUnchanged(call) == "error" \in DOMAIN call.result /\ call.db = db

\* C18: recordSkillUsage, updateSkill and getSkill called with a skill id that
\* matches no stored skill throw, and the stored skills, usage records and
\* version records are the same after the call as before it
C18_UnknownSkillThrows ==
    \A id \in UnknownIds :
        /\ \A outcome \in Outcomes, now \in Timestamps :
               ThrewUnchanged(recordSkillUsage(
                   db, [skill_id |-> id, outcome |-> outcome], now))
        /\ \A updates \in ToolUpdates :
               ThrewUnchanged(updateSkill(
                   db, [skill_id |-> id, updates |-> updates]))
        /\ ThrewUnchanged(getSkill(db, [skill_id |-> id]))

\* update_skill has just thrown for an unknown id on a store that holds a
\* skill and a usage record
C18_Witness ==
    /\ result.op = "update_skill"
    /\ "error" \in DOMAIN result
    /\ result.error = "Skill not found: k0"
    /\ Len(db.skills) > 0
    /\ Len(db.usages) > 0


\* the names of the stored skills, deprecated ones included
StoredNames == {db.skills[i].name : i \in 1..Len(db.skills)}

\* C19: createSkill with the name of a stored skill, active or deprecated,
\* throws and adds neither a skill nor a version record; after any sequence
\* of creates and updates, renames included, no two stored skills share a name
C19_NamesUnique ==
    /\ \A name \in StoredNames, description \in SkillDescriptions :
           ThrewUnchanged(createSkill(
               db, [name |-> name, description |-> description]))
    /\ \A i, j \in 1..Len(db.skills) :
           db.skills[i].name = db.skills[j].name => i = j

\* create_skill has just been refused the name of the only stored skill,
\* which is deprecated
C19_Witness ==
    /\ result.op = "create_skill"
    /\ "error" \in DOMAIN result
    /\ result.error = "UNIQUE constraint failed: skills.name"
    /\ Len(db.skills) = 1
    /\ db.skills[1].deprecated_at # 0
    /\ Len(db.versions) = 1


\* the ids of the stored skills that are deprecated
DeprecatedIds ==
    {db.skills[i].id : i \in {j \in 1..Len(db.skills) :
                                  db.skills[j].deprecated_at # 0}}

\* the ids of the skills a list_skills result holds
ListedIds(listed) == {listed[i].id : i \in 1..Len(listed)}

\* the ids of the skills a match_skill result holds
MatchedIds(found) == {found[i].skill_id : i \in 1..Len(found)}

IncludesDeprecated(input) ==
    "include_deprecated" \in DOMAIN input /\ input.include_deprecated

\* no call made on this database returns a deprecated skill, unless it is
\* list_skills with include_deprecated, which returns them all
DeprecatedHidden ==
    /\ \A input \in ListInputs :
           LET listed == ListedIds(listSkills(db, input).result.skills)
           IN  IF IncludesDeprecated(input)
               THEN "search" \notin DOMAIN input => DeprecatedIds \subseteq listed
               ELSE listed \cap DeprecatedIds = {}
    /\ \A input \in MatchInputs :
           MatchedIds(matchSkill(db, input).result.matches)
               \cap DeprecatedIds = {}
    /\ Succeeded("list_skills") =>
           IF IncludesDeprecated(result.input)
           THEN DeprecatedIds \subseteq ListedIds(result.skills)
           ELSE ListedIds(result.skills) \cap DeprecatedIds = {}
    /\ Succeeded("match_skill") =>
           MatchedIds(result.matches) \cap DeprecatedIds = {}

\* a deprecated skill stays stored and deprecated over every call
StaysDeprecated == DeprecatedIds \subseteq DeprecatedIds'

\* C20: once a skill is deprecated, listSkills without include_deprecated and
\* the matchSkill tool never return it again, whatever create, update or
\* usage-recording calls follow; listSkills with include_deprecated = true
\* still returns it
C20_DeprecatedStayHidden == []DeprecatedHidden /\ [][StaysDeprecated]_vars

\* list_skills without include_deprecated has just returned only the active
\* one of two stored skills; the deprecated one has been updated
C20_Witness ==
    /\ Succeeded("list_skills")
    /\ ~IncludesDeprecated(result.input)
    /\ Len(db.skills) = 2
    /\ result.count = 1
    /\ \E id \in DeprecatedIds : updatesDone[id] > 0


\* C21: after any sequence of createSkill and updateSkill tool calls, every
\* stored skill's token_count_layer1 is countLayer1Tokens of its current name
\* and description and its token_count_layer2 is countLayer2Tokens of its
\* current full_content
C21_TokenCountsCurrent ==
    \A i \in 1..Len(db.skills) :
        LET row == db.skills[i]
        IN  /\ row.token_count_layer1 =
                   countLayer1Tokens(row.name, row.description)
            /\ row.token_count_layer2 = countLayer2Tokens(row.full_content)

\* update_skill has given a skill tags, so its content, and the count of its
\* content, are no longer those it was created with
C21_Witness ==
    /\ Succeeded("update_skill")
    /\ \E i \in 1..Len(db.skills) :
           /\ db.skills[i].id = result.skill_id
           /\ Len(db.skills[i].tags) > 0
           /\ db.skills[i].token_count_layer2 >
                  countLayer2Tokens(VersionRecords(result.skill_id, 1)[1].content)


-----------------------------------------------------------------------------
(* The InterLock mesh: signal names, the tumbler whitelist, the handler     *)
(* registry, and the socket's 'signal' listener.                            *)

SignalTypes ==
    [EXPERIENCE_RECORDED |-> 240, PATTERN_EMERGED |-> 241,
     LESSON_EXTRACTED |-> 242, OPERATION_COMPLETE |-> 255, HEARTBEAT |-> 0,
     SKILL_CREATED |-> 160, SKILL_MATCHED |-> 161, SKILL_USED |-> 162,
     SKILL_DEPRECATED |-> 163, SKILL_VALIDATION_FAILED |-> 164]

signalNames ==
    [code \in {SignalTypes[k] : k \in DOMAIN SignalTypes} |->
        CHOOSE k \in DOMAIN SignalTypes : SignalTypes[k] = code]

\* code.toString(16).toUpperCase()
RECURSIVE toHexUpper(_)
toHexUpper(n) ==
    LET digit(d) == SubSeq("0123456789ABCDEF", d + 1, d + 1)
    IN  IF n < 16 THEN digit(n)
        ELSE toHexUpper(n \div 16) \o digit(n % 16)

getSignalName(code) ==
    IF code \in DOMAIN signalNames THEN signalNames[code]
    ELSE "UNKNOWN_" \o toHexUpper(code)

DefaultWhitelist ==
    {"EXPERIENCE_RECORDED", "PATTERN_EMERGED", "LESSON_EXTRACTED",
     "OPERATION_COMPLETE", "HEARTBEAT"}

\* config/interlock.json as read at module load: unreadable, readable
\* without a tumbler whitelist, or readable with one
loadTumblerConfig(config) ==
    IF ~config.readable THEN DefaultWhitelist
    ELSE IF "whitelist" \in DOMAIN config THEN config.whitelist
    ELSE {}

\* every signal passes
isSignalAllowedAlways(whitelist_, signal) == TRUE

isSignalAllowed(whitelist_, signal) ==
    getSignalName(signal.signalType) \in whitelist_

addToWhitelist(whitelist_, signalName) == whitelist_ \cup {signalName}

removeFromWhitelist(whitelist_, signalName) == whitelist_ \ {signalName}

\* the handlers registered when handlers.js is loaded
builtinHandlers ==
    [code \in {SignalTypes.EXPERIENCE_RECORDED, SignalTypes.PATTERN_EMERGED,
               SignalTypes.LESSON_EXTRACTED, SignalTypes.OPERATION_COMPLETE,
               SignalTypes.HEARTBEAT} |-> signalNames[code]]

registerHandler(handlers_, signalType, handler) ==
    [code \in DOMAIN handlers_ \cup {signalType} |->
        IF code = signalType THEN handler ELSE handlers_[code]]

\* a field of the payload that is present and not the empty string
truthy(payload, field) == field \in DOMAIN payload /\ payload[field] # ""

\* the handler of OPERATION_COMPLETE; an INSERT for a skill_id that is not
\* in skills fails on the foreign key and the error is caught
operationComplete(db_, signal, now) ==
    IF /\ truthy(signal.payload, "skill_id")
       /\ truthy(signal.payload, "outcome")
       /\ HasSkill(db_, signal.payload.skill_id)
    THEN insertUsage(db_, [skill_id |-> signal.payload.skill_id,
                           outcome |-> signal.payload.outcome,
                           created_at |-> now])
    ELSE db_

\* a handler's run: the database after it and whether it threw.  "mock" and
\* "throwing" are handlers a caller registered; the others are built in
runHandler(db_, handler, signal, now) ==
    [db |-> IF handler = "OPERATION_COMPLETE"
            THEN operationComplete(db_, signal, now) ELSE db_,
     threw |-> handler = "throwing"]

handleSignal(db_, handlers_, signal, now) ==
    IF signal.signalType \in DOMAIN handlers_
    THEN [db |-> runHandler(db_, handlers_[signal.signalType], signal, now).db,
          handler |-> handlers_[signal.signalType],
          caught |-> runHandler(db_, handlers_[signal.signalType], signal, now).threw,
          threw |-> FALSE]
    ELSE [db |-> db_, handler |-> "", caught |-> FALSE, threw |-> FALSE]

\* handleSignal as handlers.ts and dist/interlock/handlers.js have it, reading
\* signal.code, signal.name and signal.data.  For a signal without a code,
\* handlers.get(undefined) finds no handler and signal.code.toString(16), in
\* the else branch and outside any try block, throws a TypeError
handleSignalByCode(db_, handlers_, signal, now) ==
    IF "code" \notin DOMAIN signal
    THEN [db |-> db_, handler |-> "", caught |-> FALSE, threw |-> TRUE]
    ELSE handleSignal(db_, handlers_,
                      [signalType |-> signal.code,
                       payload |-> IF "data" \in DOMAIN signal
                                   THEN signal.data ELSE <<>>], now)

convertToLocalSignal(sharedSignal) ==
    [signalType |-> sharedSignal.type,
     payload |-> sharedSignal.data @@
                 [sender |-> IF truthy(sharedSignal.data, "serverId")
                             THEN sharedSignal.data.serverId ELSE "unknown"]]

\* sharedSocket.on('signal', ...): the database after the listener and what
\* became of the signal
onSignal(db_, whitelist_, handlers_, keyField_, sharedSignal, now) ==
    LET handleSignal_(signal) ==
            IF keyField_ = "code"
            THEN handleSignalByCode(db_, handlers_, signal, now)
            ELSE handleSignal(db_, handlers_, signal, now)
        handled(signal) ==
            IF ~isSignalAllowed(whitelist_, signal)
            THEN [db |-> db_,
                  delivery |-> [routed |-> FALSE,
                                signalType |-> signal.signalType]]
            ELSE [db |-> handleSignal_(signal).db,
                  delivery |-> [routed |-> TRUE,
                                signalType |-> signal.signalType,
                                handler |-> handleSignal_(signal).handler,
                                caught |-> handleSignal_(signal).caught,
                                threw |-> handleSignal_(signal).threw]]
    IN  handled(convertToLocalSignal(sharedSignal))

-----------------------------------------------------------------------------
(* The mesh at work beside the tools that write usages.                     *)

Configs ==
    {[readable |-> FALSE], [readable |-> TRUE],
     [readable |-> TRUE, whitelist |-> {"HEARTBEAT", "SKILL_CREATED"}]}

WhitelistNames == {"OPERATION_COMPLETE", "UNKNOWN_FE"}

\* 254 is the code of no signal
SignalCodes ==
    {SignalTypes.OPERATION_COMPLETE, SignalTypes.HEARTBEAT,
     SignalTypes.SKILL_CREATED, 254}

SignalData ==
    {[serverId |-> "peer"],
     [skill_id |-> "k1", outcome |-> "success"],
     [skill_id |-> "k1", outcome |-> "error"],
     [skill_id |-> "k0", outcome |-> "partial"]}

SharedSignals == [type : SignalCodes, data : SignalData]

RegisteredHandlers == {"mock", "throwing"}

InitSignal ==
    /\ pc = "serve"
    /\ db = EmptyDb
    /\ result = NoResult
    /\ updatesDone = <<>>
    /\ skills = <<>>
    /\ MatchIdle
    /\ ConflictIdle
    /\ AnalyzeIdle
    /\ TokenIdle
    /\ \E config \in Configs : whitelist = loadTumblerConfig(config)
    /\ handlers = builtinHandlers
    /\ keyField \in {"signalType", "code"}
    /\ delivery = NoDelivery
    /\ started = TRUE
    /\ sharedSocket = 1
    /\ sockets = <<"listening">>
    /\ calls = <<[fn |-> "startInterlock", at |-> "returned", socket |-> 1]>>
    /\ disk = <<>>

engineVars == <<pc, matchVars, conflictVars, analyzeVars, tokenVars>>

AddToWhitelist(signalName) ==
    /\ whitelist' = addToWhitelist(whitelist, signalName)
    /\ UNCHANGED <<handlers, keyField, delivery, dbVars, engineVars, lockVars, disk>>

RemoveFromWhitelist(signalName) ==
    /\ whitelist' = removeFromWhitelist(whitelist, signalName)
    /\ UNCHANGED <<handlers, keyField, delivery, dbVars, engineVars, lockVars, disk>>

RegisterHandler ==
    /\ \E signalType \in {254, SignalTypes.HEARTBEAT},
          handler \in RegisteredHandlers :
           handlers' = registerHandler(handlers, signalType, handler)
    /\ UNCHANGED <<whitelist, keyField, delivery, dbVars, engineVars, lockVars, disk>>

ReceiveSignal ==
    /\ \E s \in 1..Len(sockets) : sockets[s] = "listening"
    /\ OpsDone < MaxOps
    /\ \E sharedSignal \in SharedSignals, now \in Timestamps :
           LET arrival == onSignal(db, whitelist, handlers, keyField, sharedSignal,
                                   now)
           IN  /\ db' = arrival.db
               /\ delivery' = arrival.delivery
    /\ UNCHANGED <<result, updatesDone, whitelist, handlers, keyField,
                   engineVars,
                   lockVars, disk>>

NextSignal ==
    \/ \E signalName \in WhitelistNames : AddToWhitelist(signalName)
    \/ \E signalName \in WhitelistNames : RemoveFromWhitelist(signalName)
    \/ RegisterHandler
    \/ ReceiveSignal

SpecSignal == InitSignal /\ [][NextSignal]_vars

\* the listener beside the tools that create skills and record usages
NextUsage == CreateSkill \/ RecordSkillUsage \/ ReceiveSignal

SpecUsage == InitSignal /\ [][NextUsage]_vars


-----------------------------------------------------------------------------
(* Properties of the mesh.                                                  *)

C23_HandleSignalNeverThrows ==
    delivery.routed =>
        /\ ~delivery.threw
        /\ delivery.handler = "throwing" => delivery.caught

\* C26: every stored usage record has an outcome in {success, failure,
\* partial}, whether it was written by recordSkillUsage or by the handler of
\* an OPERATION_COMPLETE signal carrying skill_id and outcome
C26_StoredOutcomesValid ==
    \A i \in 1..Len(db.usages) : arrIncludes(validOutcomes, db.usages[i].outcome)


-----------------------------------------------------------------------------
(* Further properties of matchSkills.                                       *)

\* the task contains the name as a substring, normalized or in lower case
NameIsSubstring(name) ==
    \/ includes(normalizeForMatch(taskDescription), normalizeForMatch(name))
    \/ includes(toLowerCase(taskDescription), toLowerCase(name))

\* the tokens of a name, and how many of them are among the task tokens
NameTokens(name) == tokenize(normalizeForMatch(name))

NameTokensMatched(name) ==
    Cardinality({k \in 1..Len(NameTokens(name)) :
                     \E j \in 1..Len(TaskTokens) :
                         TaskTokens[j] = NameTokens(name)[k]})

\* C24: the name component of the score is 0.5 when the task contains the
\* name as a substring; otherwise 0.4 when the name has a token and all its
\* tokens are task tokens; otherwise 0.2 * matched / total when at least half
\* of them are; otherwise 0.  So a substring match contributes strictly more
\* than an all-tokens match, which contributes strictly more than a partial
\* match
C24_NameComponent ==
    \A i \in 1..Len(skills) :
        LET component(name, score) ==
                LET total == Len(NameTokens(name))
                    matched == NameTokensMatched(name)
                IN  IF NameIsSubstring(name)
                    THEN score = <<1, 2>>
                    ELSE IF total > 0 /\ matched = total
                    THEN score = <<2, 5>> /\ RLt(score, <<1, 2>>)
                    ELSE IF total > 0 /\ 2 * matched >= total
                    THEN /\ score = RMul(<<1, 5>>, Rat(matched, total))
                         /\ RLt(score, <<2, 5>>)
                    ELSE score = Zero
        IN  component(skills[i].name,
                      nameScore(taskDescription, TaskTokens, skills[i]))

\* one call scored an all-tokens match and a partial match on the name
C24_Witness ==
    /\ Returned
    /\ \E i, j \in 1..Len(skills) :
           /\ ~NameIsSubstring(skills[i].name)
           /\ nameScore(taskDescription, TaskTokens, skills[i]) = <<2, 5>>
           /\ ~NameIsSubstring(skills[j].name)
           /\ nameScore(taskDescription, TaskTokens, skills[j]) = <<1, 10>>


-----------------------------------------------------------------------------
(* Further properties of analyzeDescription and countTokens.                *)

\* C29: in exact arithmetic analyzeDescription never returns a clarity_score
\* below 0.2: the penalties that apply together are at most 0.3 of the
\* initial 0.5, so the lower clamp at 0 is never reached
C29_ClarityAtLeastFifth ==
    pc = "done" =>
        /\ RLe(<<1, 5>>, analysis.clarity_score)
        /\ RLe(analysis.clarity_score, One)
        /\ ClarityTenths >= 2 * TriggerDen

\* a description that is too short, has fewer than 3 keywords, no action
\* word and covers no trigger: both penalties apply and the score is 0.2
C29_Witness ==
    /\ pc = "done"
    /\ Len(descriptionIn) < MIN_DESCRIPTION_LENGTH
    /\ KeywordCount < 3
    /\ ~HasActionWord
    /\ Len(intendedTriggers) > 0
    /\ CoveredCount = 0
    /\ analysis.clarity_score = <<1, 5>>


\* the prefixes of the counted text
PrefixesOfText == {SubSeq(textIn, 1, n) : n \in 0..Len(textIn)}

\* C30: countTokens is monotone in prefixes: countTokens(p) <= countTokens(t)
\* for every prefix p of a text t, as neither the character count nor the
\* count of whitespace-separated words decreases when text is appended
C30_MonotoneInPrefixes ==
    pc = "done" =>
        \A p \in PrefixesOfText :
            /\ countTokens(p) <= tokens
            /\ Len(p) <= Len(textIn)
            /\ wordCount(p) <= wordCount(textIn)

\* a text with a prefix of fewer words, ending in white space, that counts
\* strictly less
C30_Witness ==
    /\ pc = "done"
    /\ \E p \in PrefixesOfText :
           /\ p # ""
           /\ IsSpace(SubSeq(p, Len(p), Len(p)))
           /\ wordCount(p) < wordCount(textIn)
           /\ countTokens(p) < tokens


-----------------------------------------------------------------------------
(* The disk loader: loadSkillsFromDisk over the SKILL.md files found.  A    *)
(* file is its directory's name, its content and whether readFileSync       *)
(* returns it.                                                              *)

\* the skill of a file that is neither skipped nor in error
diskSkill(db_, skillName, frontmatter, content) ==
    [id |-> newId(db_),
     name |-> skillName,
     description |-> frontmatter.description,
     full_content |-> content,
     version |-> 1,
     token_count_layer1 |-> countLayer1Tokens(skillName, frontmatter.description),
     token_count_layer2 |-> countLayer2Tokens(content),
     tags |-> IF "tags" \in DOMAIN frontmatter THEN frontmatter.tags ELSE <<>>,
     usage_count |-> 0,
     success_count |-> 0]

\* the idempotency check left out: every named file is inserted
loadNamedAlways(state, file, frontmatter, skillName) ==
    IF skillName = ""
    THEN [state EXCEPT !.errors = Append(@, "No skill name found")]
    ELSE IF NameTaken(state.db, skillName, "")
    THEN [state EXCEPT !.errors = Append(@, "UNIQUE constraint failed: skills.name")]
    ELSE [state EXCEPT
             !.db = insertSkill(@, diskSkill(@, skillName, frontmatter, file.content)),
             !.existingSkills = @ \cup {toLowerCase(skillName)},
             !.loaded = @ + 1]

\* the body of the loop once the file is read and parsed
loadNamed(state, file, frontmatter, skillName) ==
    IF skillName = ""
    THEN [state EXCEPT !.errors = Append(@, "No skill name found")]
    ELSE IF toLowerCase(skillName) \in state.existingSkills
    THEN [state EXCEPT !.skipped = @ + 1]
    ELSE IF NameTaken(state.db, skillName, "")
    THEN [state EXCEPT !.errors = Append(@, "UNIQUE constraint failed: skills.name")]
    ELSE [state EXCEPT
             !.db = insertSkill(@, diskSkill(@, skillName, frontmatter, file.content)),
             !.existingSkills = @ \cup {toLowerCase(skillName)},
             !.loaded = @ + 1]

\* one iteration: parsed.frontmatter.name || basename(dirname(filePath))
loadFile(state, file) ==
    LET named(frontmatter) ==
            loadNamed(state, file, frontmatter,
                      IF frontmatter.name # "" THEN frontmatter.name
                      ELSE file.dirName)
    IN  IF ~file.readable
        THEN [state EXCEPT !.errors = Append(@, "ENOENT")]
        ELSE named(parseSkillMd(file.content))

RECURSIVE loadLoop(_, _, _)
loadLoop(files, i, state) ==
    IF i > Len(files) THEN state
    ELSE loadLoop(files, i + 1, loadFile(state, files[i]))

existingSkillNames(db_) ==
    {toLowerCase(getAllSkills(db_, TRUE)[i].name) :
        i \in 1..Len(getAllSkills(db_, TRUE))}

loadSkillsFromDisk(db_, files) ==
    loadLoop(files, 1,
             [db |-> db_, existingSkills |-> existingSkillNames(db_),
              loaded |-> 0, skipped |-> 0, errors |-> <<>>])

-----------------------------------------------------------------------------
(* The loader run, any number of times, beside create_skill and the DELETE  *)
(* route.                                                                   *)

MaxFiles == 2

DiskFiles ==
    {[dirName |-> "x", readable |-> TRUE,
      content |-> "---\nname: Deploy\ndescription: Deploy git\ntags: [Git]\n---\nRun"],
     [dirName |-> "git-deploy", readable |-> TRUE, content |-> "Run git"],
     [dirName |-> "", readable |-> TRUE, content |-> "---\ndescription: None\n---\n"],
     [dirName |-> "y", readable |-> TRUE,
      content |-> "---\nname: deploy\n---\n"],
     [dirName |-> "z", readable |-> FALSE, content |-> ""]}

Disks == UNION {[1..n -> DiskFiles] : n \in 0..MaxFiles}

InitLoad ==
    /\ pc = "serve"
    /\ db = EmptyDb
    /\ result = NoResult
    /\ updatesDone = <<>>
    /\ skills = <<>>
    /\ MatchIdle
    /\ ConflictIdle
    /\ AnalyzeIdle
    /\ TokenIdle
    /\ SignalIdle
    /\ LockIdle
    /\ disk \in Disks

LoadSkillsFromDisk ==
    LET run == loadSkillsFromDisk(db, disk)
    IN  /\ Len(run.db.skills) <= MaxOps
        /\ db' = run.db
        /\ result' = [op |-> "load_skills_from_disk", loaded |-> run.loaded,
                      skipped |-> run.skipped, errors |-> run.errors]
        /\ updatesDone' =
               [id \in {run.db.skills[i].id : i \in 1..Len(run.db.skills)} |->
                   IF id \in DOMAIN updatesDone THEN updatesDone[id] ELSE 0]
        /\ UNCHANGED <<engineVars, signalVars, lockVars, disk>>

NextLoad == LoadSkillsFromDisk \/ CreateSkill \/ DeprecateSkill

SpecLoad == InitLoad /\ [][NextLoad]_vars

\* C27: loadSkillsFromDisk is idempotent: a second run over the same files
\* loads 0 skills and inserts nothing, names being compared without case and
\* deprecated skills included; and each run counts every file exactly once,
\* as loaded, skipped or an error (so the second run skips what the first
\* loaded or skipped and reports the same errors)
C27_LoadIdempotent ==
    /\ [](result.op = "load_skills_from_disk" =>
            /\ result.loaded + result.skipped + Len(result.errors) = Len(disk)
            /\ loadSkillsFromDisk(db, disk).loaded = 0
            /\ loadSkillsFromDisk(db, disk).skipped =
                   result.loaded + result.skipped
            /\ loadSkillsFromDisk(db, disk).db = db)
    /\ [][(result.op = "load_skills_from_disk" /\ LoadSkillsFromDisk) =>
              /\ result'.loaded = 0
              /\ result'.skipped = result.loaded + result.skipped
              /\ result'.errors = result.errors
              /\ db' = db]_vars

\* a second run has skipped two files the previous run loaded, and a skill
\* of the database is deprecated
C27_Witness ==
    /\ result.op = "load_skills_from_disk"
    /\ result.loaded = 0
    /\ result.skipped = 2
    /\ Len(db.skills) = 3
    /\ \E i \in 1..Len(db.skills) : db.skills[i].deprecated_at # 0


-----------------------------------------------------------------------------
(* startInterlock and closeInterlock.  Both are async: a call runs to its   *)
(* await, other calls run meanwhile, and it resumes when the socket's       *)
(* start() or stop() settles.  A socket is "starting" from its construction *)
(* in startSocket, then "listening" or "failed", and "stopped" after stop().*)

MaxCalls == 3

OpenSockets == {s \in 1..Len(sockets) : sockets[s] \in {"starting", "listening"}}

InitStart ==
    /\ pc = "serve"
    /\ skills = <<>>
    /\ MatchIdle
    /\ ConflictIdle
    /\ AnalyzeIdle
    /\ TokenIdle
    /\ DbIdle
    /\ SignalIdle
    /\ LockIdle
    /\ disk = <<>>

restVars == <<engineVars, dbVars, signalVars, disk>>

\* startInterlock up to `await sharedSocket.start()` inside startSocket
StartInterlock ==
    /\ Len(calls) < MaxCalls
    /\ IF started
       THEN /\ calls' = Append(calls, [fn |-> "startInterlock",
                                      at |-> "returned", socket |-> 0])
            /\ UNCHANGED <<sharedSocket, sockets>>
       ELSE /\ sockets' = Append(sockets, "starting")
            /\ sharedSocket' = Len(sockets) + 1
            /\ calls' = Append(calls, [fn |-> "startInterlock",
                                      at |-> "awaitStart",
                                      socket |-> Len(sockets) + 1])
    /\ UNCHANGED <<started, restVars>>

\* sharedSocket.start() resolves: startSocket returns and startInterlock sets
\* started.  A socket stopped while it was starting is left stopped or ends
\* up listening
StartResolves(c) ==
    /\ calls[c].at = "awaitStart"
    /\ \E status \in IF sockets[calls[c].socket] = "starting"
                     THEN {"listening"}
                     ELSE {sockets[calls[c].socket], "listening"} :
           sockets' = [sockets EXCEPT ![calls[c].socket] = status]
    /\ started' = TRUE
    /\ calls' = [calls EXCEPT ![c].at = "returned"]
    /\ UNCHANGED <<sharedSocket, restVars>>

\* sharedSocket.start() rejects: the error leaves startInterlock
StartRejects(c) ==
    /\ calls[c].at = "awaitStart"
    /\ sockets' = [sockets EXCEPT ![calls[c].socket] =
                       IF @ = "starting" THEN "failed" ELSE @]
    /\ calls' = [calls EXCEPT ![c].at = "threw"]
    /\ UNCHANGED <<started, sharedSocket, restVars>>

\* closeInterlock up to `await sharedSocket.stop()` inside closeSocket, or to
\* its end when there is nothing to await
CloseInterlock ==
    /\ Len(calls) < MaxCalls
    /\ IF ~started
       THEN /\ calls' = Append(calls, [fn |-> "closeInterlock",
                                      at |-> "returned", socket |-> 0])
            /\ UNCHANGED started
       ELSE IF sharedSocket = 0
       THEN /\ calls' = Append(calls, [fn |-> "closeInterlock",
                                      at |-> "returned", socket |-> 0])
            /\ started' = FALSE
       ELSE /\ calls' = Append(calls, [fn |-> "closeInterlock",
                                      at |-> "awaitStop",
                                      socket |-> sharedSocket])
            /\ UNCHANGED started
    /\ UNCHANGED <<sharedSocket, sockets, restVars>>

\* sharedSocket.stop() resolves: closeSocket clears sharedSocket and
\* closeInterlock clears started
StopResolves(c) ==
    /\ calls[c].at = "awaitStop"
    /\ sockets' = [sockets EXCEPT ![calls[c].socket] = "stopped"]
    /\ sharedSocket' = 0
    /\ started' = FALSE
    /\ calls' = [calls EXCEPT ![c].at = "returned"]
    /\ UNCHANGED restVars

\* sharedSocket.stop() rejects: the error leaves closeInterlock
StopRejects(c) ==
    /\ calls[c].at = "awaitStop"
    /\ calls' = [calls EXCEPT ![c].at = "threw"]
    /\ UNCHANGED <<started, sharedSocket, sockets, restVars>>

NextStart ==
    \/ StartInterlock
    \/ CloseInterlock
    \/ \E c \in 1..Len(calls) : StartResolves(c)
    \/ \E c \in 1..Len(calls) : StartRejects(c)
    \/ \E c \in 1..Len(calls) : StopResolves(c)
    \/ \E c \in 1..Len(calls) : StopRejects(c)

SpecStart == InitStart /\ [][NextStart]_vars

\* C28: startInterlock starts the socket at most once: a call made before
\* closeInterlock, also while an earlier call still awaits startSocket,
\* creates no second socket, so at most one socket is open; and when the
\* latest call is a closeInterlock and every call has returned, no socket is
\* open
C28_SingleSocket ==
    /\ Cardinality(OpenSockets) <= 1
    /\ (/\ calls # <<>>
        /\ calls[Len(calls)].fn = "closeInterlock"
        /\ \A c \in 1..Len(calls) : calls[c].at = "returned")
           => OpenSockets = {}

=============================================================================
